---------------------------- MODULE Spec2Model ----------------------------
(***************************************************************************)
(* A model of the ML-Notebooks repository: the computational-graph         *)
(* notebook, the data preparation and the training loops of the           *)
(* bag-of-words text classifiers, the PyTorch hello-world loop and the    *)
(* counterfactual-explanation notebook.  Every notebook is a sequential   *)
(* script; its position is a program counter and each statement (or       *)
(* library call) is one action.  Results of library calls that the        *)
(* notebooks treat as black boxes (a classifier's prediction, the search  *)
(* result of CoGS, the numeric value of a loss) are inputs chosen from     *)
(* small sets.                                                             *)
(***************************************************************************)
EXTENDS Integers, Sequences, FiniteSets, TLC

VARIABLES
    \* Introduction_Computational_Graphs.ipynb
    gpc,        \* position in the notebook
    val,        \* value of every tensor created so far
    fn,         \* grad_fn of every non-leaf tensor: [op, inputs]
    retain,     \* tensors on which retain_grad() was called
    buf,        \* autograd engine: gradient buffered for a tensor
    grad,       \* the .grad attribute of the tensors that have one
    todo,       \* autograd engine: non-leaf tensors still to be processed
    order,      \* autograd engine: tensors in the order they were processed
    \* the text-classifier notebooks: data preparation
    dpc,            \* position in the data-preparation cells
    train_raw,      \* train_data as returned by read_data
    test_raw,       \* test_data as returned by read_data
    di,             \* create_dict: number of the record the loop is at
    word_to_index,
    tag_to_index,
    train_data,     \* train_data after list(create_tensor(train_data))
    test_data,      \* test_data after list(create_tensor(test_data))
    number_of_words,
    number_of_tags,
    \* the training loops (text classifiers and PyTorch hello world)
    nb,             \* the notebook that runs: "text" or "hello"
    tpc,            \* the statement the loop is at
    ITER,           \* the loop variable of the outer loop (epoch)
    pos,            \* inner loop: how many samples it has taken so far
    sample,         \* inner loop: the (sentence, tag) it is at
    output,         \* output = model(...): which parameters, which input
    predicted,      \* predicted = torch.argmax(output...).item()
    loss,           \* loss = criterion(output, tag)
    total_loss,     \* in units of one loss term
    train_correct,
    test_correct,
    mode,           \* model.training: "train" or "eval"
    pgrad,          \* the .grad of the parameters: the list of the
                    \* loss gradients added since they were last cleared
    params,         \* the parameters, named by the number of optimizer
                    \* updates that produced them
    applied,        \* what the last optimizer.step() has computed the update from
    calls,          \* library calls of the current pass of the inner loop
    seen,           \* training samples taken in the current epoch
    log,            \* standard output: the number printed on each line
    last_line,      \* standard output: the values of the last line
    updates,        \* per tensor of the model: the optimizer steps that changed it
    \* the forward pass of the three text classifiers
    fpc,            \* position: "permute", "forward", "done"
    arch,           \* "BoW", "CBoW" or "DeepCBoW"
    seed,           \* the random initialisation of the parameters
    sent,              \* a sentence: the list of its token indices
    sent2,             \* the same tokens in another order
    out,            \* model(x)
    out2,           \* the model applied to the reordered sentence
    \* the counterfactual explanation of a credit decision
    cpc,            \* position in the notebook, "error" after an exception
    bbm,            \* the black-box model, fitted
    X_test,         \* the test points, one row each
    p,              \* bbm.predict(X_test)
    idx,            \* the row of the user in X_test, counted from 0
    x_user,         \* x, the user
    elite,          \* cogs.elite
    cf_example,
    cf_explanation,
    stdout,         \* the lines the report has printed
    \* the search space handed to CoGS
    spc,            \* position in the cell that sets the search space up
    df_columns,     \* df.columns, the label among them
    X_train,        \* the training points, one row each
    feature_intervals,
    indices_categorical_features,
    pcs,            \* the plausibility constraints
    \* the neural network written from scratch
    npc,            \* position in the training cell
    round,          \* i, the loop variable of the training cell
    W1,             \* self.W1: how often it has been updated
    W2,             \* self.W2: how often it has been updated
    forwards,       \* how often forward has been called
    z2,             \* self.z2, as the last forward call has left it
    nn_o,           \* o, the output train hands to backward
    o_error,
    o_delta,
    z2_error,
    z2_delta,
    W1_from,        \* what the last update of W1 was computed from
    W2_from,        \* what the last update of W2 was computed from
    saved,          \* the weights torch.save has written
    printed,        \* the lines printed by the training cell
    rpc,            \* read cell: the statement about to run
    train_txt,      \* data/classes/train.txt: its lines, terminators kept
    test_txt,       \* data/classes/test.txt
    ri,             \* read_data: 1 + the number of lines read
    records         \* read_data: the local list data

gvars == <<gpc, val, fn, retain, buf, grad, todo, order>>

dvars == <<dpc, train_raw, test_raw, di, word_to_index, tag_to_index,
           train_data, test_data, number_of_words, number_of_tags>>

tvars == <<nb, tpc, ITER, pos, sample, output, predicted, loss, total_loss,
           train_correct, test_correct, mode, pgrad, params, applied, calls,
           seen, log, last_line, updates>>

fvars == <<fpc, arch, seed, sent, sent2, out, out2>>

cvars == <<cpc, bbm, X_test, p, idx, x_user, elite, cf_example,
           cf_explanation, stdout>>

svars == <<spc, df_columns, X_train, feature_intervals,
           indices_categorical_features, pcs>>

nvars == <<npc, round, W1, W2, forwards, z2, nn_o, o_error, o_delta, z2_error,
           z2_delta, W1_from, W2_from, saved, printed>>

rvars == <<rpc, train_txt, test_txt, ri, records>>

vars == <<gvars, dvars, tvars, fvars, cvars, svars, nvars, rvars>>

notGraph == <<rvars, nvars, svars, dvars, tvars, fvars, cvars>>

notData == <<rvars, nvars, svars, gvars, tvars, fvars, cvars>>

notTrain == <<rvars, nvars, svars, gvars, fvars, cvars, word_to_index, tag_to_index, number_of_words,
              number_of_tags, dpc, train_raw, test_raw, di, test_data>>

notForward == <<rvars, nvars, svars, gvars, dvars, tvars, cvars>>

notExplain == <<rvars, nvars, svars, gvars, dvars, tvars, fvars>>

notSearch == <<rvars, nvars, gvars, dvars, tvars, fvars, cvars>>

notScratch == <<rvars, gvars, dvars, tvars, fvars, cvars, svars>>

notRead == <<gvars, tvars, fvars, cvars, svars, nvars>>

-----------------------------------------------------------------------------
(* Bounds of the model *)

\* the inputs a and b of the computational graph range over -MaxIn..MaxIn
MaxIn == 2

\* a data file of the text classifiers holds 1..MaxLines lines
MaxLines == 2


\* forward pass: the vocabulary has FwdWords indices (number_of_words)
FwdWords == 3

\* forward pass: the scores have FwdTags entries (number_of_tags)
FwdTags == 2

\* forward pass: a sentence has 1..MaxSent tokens
MaxSent == 3

\* forward pass: width of the embeddings (EMB_SIZE = 64 in the notebooks)
EmbSize == 2

\* forward pass: width of the hidden layers (HIDDEN_SIZE = 64)
HiddenSize == 2

\* forward pass: the parameters are one of MaxSeed + 1 initialisations
MaxSeed == 2


\* counterfactual: the test set has 1..MaxTest points
MaxTest == 2

\* counterfactual: the training set has 1..MaxTrain points
MaxTrain == 2


-----------------------------------------------------------------------------
(* Constants of the program *)

\* desired_class = 1 # this means "low risk"
desired_class == 1

\* for i in range(1000)
Rounds == 1000

\* if (i % 100) == 0
PrintEvery == 100

\* NUM_LAYERS = 2
NumLayers == 2

\* for ITER in range(10) / for epoch in range(10)
Epochs == 10

\* for ITER in range(150)
HelloIters == 150

-----------------------------------------------------------------------------
(***************************************************************************)
(* Introduction_Computational_Graphs.ipynb                                 *)
(***************************************************************************)

Leaves == {"a", "b"}

\* the set of tensors of the graph that are inputs of node n
InputsOf(n) == {fn[n].inputs[i] : i \in DOMAIN fn[n].inputs} \ {"const"}

\* the tensors whose grad_fn has n among its inputs
ConsumersOf(n) == {m \in DOMAIN fn : n \in InputsOf(m)}

\* value of operand x of an operation: a tensor of the graph or a Python number
Operand(x, k) == IF x = "const" THEN k ELSE val[x]

\* c = a + b: AddBackward0 over a and b
OpC ==
    /\ gpc = "c"
    /\ val' = val @@ ("c" :> val["a"] + val["b"])
    /\ fn' = fn @@ ("c" :> [op |-> "add", inputs |-> <<"a", "b">>, k |-> 0])
    /\ gpc' = "d"
    /\ UNCHANGED <<retain, buf, grad, todo, order>>
    /\ UNCHANGED notGraph

\* d = b + 1: AddBackward0 over b and the constant 1
OpD ==
    /\ gpc = "d"
    /\ val' = val @@ ("d" :> val["b"] + 1)
    /\ fn' = fn @@ ("d" :> [op |-> "add", inputs |-> <<"b", "const">>, k |-> 1])
    /\ gpc' = "e"
    /\ UNCHANGED <<retain, buf, grad, todo, order>>
    /\ UNCHANGED notGraph

\* e = c * d: MulBackward0 over c and d
OpE ==
    /\ gpc = "e"
    /\ val' = val @@ ("e" :> val["c"] * val["d"])
    /\ fn' = fn @@ ("e" :> [op |-> "mul", inputs |-> <<"c", "d">>, k |-> 0])
    /\ gpc' = "retain"
    /\ UNCHANGED <<retain, buf, grad, todo, order>>
    /\ UNCHANGED notGraph

\* c.retain_grad(); d.retain_grad(); e.retain_grad()
RetainGrad ==
    /\ gpc = "retain"
    /\ retain' = {"c", "d", "e"}
    /\ gpc' = "backward"
    /\ UNCHANGED <<val, fn, buf, grad, todo, order>>
    /\ UNCHANGED notGraph

\* the derivative of node n with respect to its i-th input
LocalDeriv(n, i) ==
    IF fn[n].op = "add" THEN 1
    ELSE Operand(fn[n].inputs[3 - i], fn[n].k)

\* a gradient buffer g (a function on the tensors that have a gradient so
\* far) after contribution x has been overwritten into tensor t
Overwrite(g, t, x) ==
    [u \in DOMAIN g \cup {t} |-> IF u = t THEN x ELSE g[u]]

\* a gradient buffer g after contribution x has arrived for tensor t: the
\* contributions of all paths are summed
Accumulate(g, t, x) ==
    [u \in DOMAIN g \cup {t} |->
        IF u = t THEN (IF t \in DOMAIN g THEN g[t] + x ELSE x) ELSE g[u]]

RECURSIVE Propagate(_, _, _, _)
\* buffer g after node n, whose own gradient is gn, has sent a contribution
\* to each of its inputs i..2
Propagate(g, n, gn, i) ==
    IF i > Len(fn[n].inputs) THEN g
    ELSE IF fn[n].inputs[i] = "const" THEN Propagate(g, n, gn, i + 1)
    ELSE Propagate(Accumulate(g, fn[n].inputs[i], gn * LocalDeriv(n, i)),
                   n, gn, i + 1)

\* the tensors that keep what the buffer holds for them in .grad: leaves
\* that require grad and non-leaf tensors with retain_grad()
Stored(g) == [t \in DOMAIN g \cap (Leaves \cup retain) |-> g[t]]

\* e.backward(): the root gets gradient 1
BackwardStart ==
    /\ gpc = "backward"
    /\ buf' = Accumulate(buf, "e", 1)
    /\ grad' = Stored(buf')
    /\ todo' = DOMAIN fn
    /\ gpc' = "engine"
    /\ UNCHANGED <<val, fn, retain, order>>
    /\ UNCHANGED notGraph

\* e.backward(): the engine runs the grad_fn of a tensor all of whose
\* consumers have run (any topological order)
BackwardNode(n) ==
    /\ gpc = "engine"
    /\ n \in todo
    /\ ConsumersOf(n) \cap todo = {}
    /\ buf' = Propagate(buf, n, buf[n], 1)
    /\ grad' = Stored(buf')
    /\ todo' = todo \ {n}
    /\ order' = Append(order, n)
    /\ UNCHANGED <<gpc, val, fn, retain>>
    /\ UNCHANGED notGraph

\* e.backward() returns; print(a.grad, b.grad, c.grad, d.grad, e.grad)
BackwardDone ==
    /\ gpc = "engine"
    /\ todo = {}
    /\ gpc' = "printed"
    /\ UNCHANGED <<val, fn, retain, buf, grad, todo, order>>
    /\ UNCHANGED notGraph

\* the notebook has not been opened
GraphIdle ==
    /\ gpc = "off"
    /\ val = <<>>
    /\ fn = <<>>
    /\ retain = {}
    /\ buf = <<>>
    /\ grad = <<>>
    /\ todo = {}
    /\ order = <<>>

GraphInit ==
    /\ gpc = "c"
    /\ \E a \in -MaxIn..MaxIn, b \in -MaxIn..MaxIn :
          val = ("a" :> a) @@ ("b" :> b)
    /\ fn = <<>>
    /\ retain = {}
    /\ buf = <<>>
    /\ grad = <<>>
    /\ todo = {}
    /\ order = <<>>

GraphNext ==
    \/ OpC
    \/ OpD
    \/ OpE
    \/ RetainGrad
    \/ BackwardStart
    \/ \E n \in {"c", "d", "e"} : BackwardNode(n)
    \/ BackwardDone

(***************************************************************************)
(* The text-classifier notebooks (BoW, CBoW, Deep CBoW): read_data,        *)
(* create_dict, create_tensor.  The three notebooks hold the same code.    *)
(* A string is the sequence of its symbols; a record is the list of        *)
(* fields that line.split(' ||| ') returned.                               *)
(***************************************************************************)

\* the key "<unk>"
UNK == <<"<unk>">>

\* texts of the data files: "a b" and "b c b"
Sentences ==
    { <<"a", " ", "b">>,
      <<"b", " ", "c", " ", "b">> }

\* a text that holds the word "<unk>" itself and, between its two spaces,
\* an empty word: "<unk>  a"
OddSentence == <<"<unk>", " ", " ", "a">>

Tags == { <<"0">>, <<"1">> }

\* what read_data can return for one line: tag and text, or, for a line
\* without ' ||| ' (an empty line), the single field ""
Records ==
    { <<t, s>> : t \in Tags, s \in Sentences }
        \cup { << <<"0">>, OddSentence >> }
        \cup { << <<>> >> }

\* all lists over S of 1..n elements
RECURSIVE ListsUpTo(_, _)
ListsUpTo(S, n) ==
    IF n = 0 THEN {}
    ELSE LET shorter == ListsUpTo(S, n - 1)
         IN  { <<x>> : x \in S } \cup shorter
                \cup { Append(l, x) : l \in shorter, x \in S }

RECURSIVE Split(_, _)
\* str.split(sep) for a one-symbol separator: the list of the pieces
\* between the separators, empty pieces included
Split(str, sep) ==
    IF \A i \in DOMAIN str : str[i] # sep THEN <<str>>
    ELSE LET i == CHOOSE i \in DOMAIN str :
                      /\ str[i] = sep
                      /\ \A j \in 1..(i - 1) : str[j] # sep
         IN  <<SubSeq(str, 1, i - 1)>>
                \o Split(SubSeq(str, i + 1, Len(str)), sep)

\* len(d) of a dictionary d
DictLen(d) == Cardinality(DOMAIN d)

\* a faulty loop body: the index is assigned whether or not the word is
\* already a key
AddWordAlways(w2i, word, check_unk) ==
    [u \in DOMAIN w2i \cup {word} |->
        IF u = word
        THEN (IF check_unk THEN w2i[UNK] ELSE DictLen(w2i))
        ELSE w2i[u]]

\* a faulty loop body: check_unk is ignored
AddWordNoUnk(w2i, word, check_unk) ==
    IF word \in DOMAIN w2i THEN w2i
    ELSE w2i @@ (word :> DictLen(w2i))

\* create_dict: the body of the loop over the words of a line
AddWord(w2i, word, check_unk) ==
    IF ~check_unk
    THEN IF word \notin DOMAIN w2i
         THEN w2i @@ (word :> DictLen(w2i))
         ELSE w2i
    ELSE IF word \notin DOMAIN w2i
         THEN w2i @@ (word :> w2i[UNK])
         ELSE w2i

RECURSIVE AddWords(_, _, _)
\* create_dict: the loop over the words of a line
AddWords(w2i, words, check_unk) ==
    IF words = <<>> THEN w2i
    ELSE AddWords(AddWord(w2i, Head(words), check_unk), Tail(words), check_unk)

\* create_dict: the tag of a line
AddTag(t2i, tag) ==
    IF tag \notin DOMAIN t2i THEN t2i @@ (tag :> DictLen(t2i)) ELSE t2i

\* line[1] raises IndexError on a record of one field
HasText(line) == Len(line) >= 2

\* create_dict: one pass of the loop over the lines of data.  A record
\* without a second field stops the function with an IndexError before
\* anything of that record is added.
CreateDictLine(data, check_unk, here) ==
    /\ dpc = here
    /\ di <= Len(data)
    /\ IF HasText(data[di])
       THEN /\ word_to_index' =
                  AddWords(word_to_index, Split(data[di][2], " "), check_unk)
            /\ tag_to_index' = AddTag(tag_to_index, data[di][1])
            /\ di' = di + 1
            /\ dpc' = dpc
       ELSE /\ dpc' = "error"
            /\ UNCHANGED <<word_to_index, tag_to_index, di>>
    /\ UNCHANGED <<train_raw, test_raw, train_data, test_data,
                   number_of_words, number_of_tags>>
    /\ UNCHANGED notData

\* create_dict returns: the loop over the lines is exhausted
CreateDictReturn(data, here, next) ==
    /\ dpc = here
    /\ di = Len(data) + 1
    /\ dpc' = next
    /\ di' = 1
    /\ UNCHANGED <<train_raw, test_raw, word_to_index, tag_to_index,
                   train_data, test_data, number_of_words, number_of_tags>>
    /\ UNCHANGED notData

\* create_tensor: the pair yielded for one line
Encode(line) ==
    << [j \in DOMAIN Split(line[2], " ") |->
            word_to_index[Split(line[2], " ")[j]]],
       tag_to_index[line[1]] >>

\* list(create_tensor(data))
CreateTensor(data) == [i \in DOMAIN data |-> Encode(data[i])]

\* train_data = list(create_tensor(train_data))
TensorTrain ==
    /\ dpc = "tensor_train"
    /\ train_data' = CreateTensor(train_raw)
    /\ dpc' = "tensor_test"
    /\ UNCHANGED <<train_raw, test_raw, di, word_to_index, tag_to_index,
                   test_data, number_of_words, number_of_tags>>
    /\ UNCHANGED notData

\* test_data = list(create_tensor(test_data))
TensorTest ==
    /\ dpc = "tensor_test"
    /\ test_data' = CreateTensor(test_raw)
    /\ dpc' = "count"
    /\ UNCHANGED <<train_raw, test_raw, di, word_to_index, tag_to_index,
                   train_data, number_of_words, number_of_tags>>
    /\ UNCHANGED notData

\* number_of_words = len(word_to_index); number_of_tags = len(tag_to_index)
CountWordsAndTags ==
    /\ dpc = "count"
    /\ number_of_words' = DictLen(word_to_index)
    /\ number_of_tags' = DictLen(tag_to_index)
    /\ dpc' = "prepared"
    /\ UNCHANGED <<train_raw, test_raw, di, word_to_index, tag_to_index,
                   train_data, test_data>>
    /\ UNCHANGED notData

\* the notebook has not been opened
DataIdle ==
    /\ dpc = "off"
    /\ train_raw = <<>>
    /\ test_raw = <<>>
    /\ di = 1
    /\ word_to_index = <<>>
    /\ tag_to_index = <<>>
    /\ train_data = <<>>
    /\ test_data = <<>>
    /\ number_of_words = 0
    /\ number_of_tags = 0

\* read_data has returned both files; word_to_index = {"<unk>": 0} and
\* tag_to_index = {}; create_dict(train_data) is about to run
DataInit ==
    /\ dpc = "dict_train"
    /\ train_raw \in ListsUpTo(Records, MaxLines)
    /\ test_raw \in ListsUpTo(Records, MaxLines)
    /\ di = 1
    /\ word_to_index = (UNK :> 0)
    /\ tag_to_index = <<>>
    /\ train_data = <<>>
    /\ test_data = <<>>
    /\ number_of_words = 0
    /\ number_of_tags = 0

DataNext ==
    \/ CreateDictLine(train_raw, FALSE, "dict_train")
    \/ CreateDictReturn(train_raw, "dict_train", "dict_test")
    \/ CreateDictLine(test_raw, TRUE, "dict_test")
    \/ CreateDictReturn(test_raw, "dict_test", "tensor_train")
    \/ TensorTrain
    \/ TensorTest
    \/ CountWordsAndTags

(***************************************************************************)
(* The training loops.  train_bow (Bag of Words), the loops of the CBoW   *)
(* and Deep CBoW notebooks, which hold the same statements, and the loop  *)
(* of the PyTorch hello-world notebook.  The model, the loss and the      *)
(* optimizer are library objects: an output or a loss is named by the     *)
(* parameters and the input it was computed from, the parameters by the   *)
(* number of updates made to them, a gradient by the loss it is the       *)
(* gradient of.                                                            *)
(***************************************************************************)

\* the input of the hello-world model: the tensors x and y
Batch == <<"x", "y">>

NoOutput == [ver |-> -1, input |-> <<>>]

\* no optimizer step has been made
NoUpdate == [grad |-> <<>>, earlier |-> 0]

\* the parameters after one more optimizer update
Updated(version) == version + 1

\* a faulty optimizer.zero_grad(): the gradients are left as they are
KeepGrad(g) == g

\* optimizer.zero_grad(): the gradients of all parameters are cleared
ZeroGrad(g) == <<>>

\* loss.backward(): the gradient of the loss is added to .grad
BackwardGrad(g, l) == Append(g, l)

\* the value model.train() gives the flag model.training
TrainMode == "train"

\* a faulty evaluation phase: the model is left in training mode
EvalModeForgotten == "train"

\* the value model.eval() gives the flag model.training
EvalMode == "eval"

\* a faulty shuffle: every position is drawn from the list anew
Resampled(l) == [DOMAIN l -> {l[i] : i \in DOMAIN l}]

\* all orders of the list l
Orders(l) ==
    { [i \in DOMAIN l |-> l[f[i]]] :
        f \in { g \in [DOMAIN l -> DOMAIN l] :
                    \A i, j \in DOMAIN l : i # j => g[i] # g[j] } }

\* a faulty loop that leaves the list one sample early
ExhaustedEarly(data, n) == n >= Len(data) - 1

\* for ... in data: the loop ends when the list has no further element
Exhausted(data, n) == n >= Len(data)

\* for ITER in range(n): the next value of the loop variable
RangeNext(n, here, body, after) ==
    /\ tpc = here
    /\ IF ITER + 1 < n
       THEN /\ ITER' = ITER + 1
            /\ tpc' = body
       ELSE /\ tpc' = after
            /\ UNCHANGED ITER
    /\ UNCHANGED <<nb, updates, pos, sample, output, predicted, loss, total_loss,
                   train_correct, test_correct, mode, pgrad, params, applied,
                   calls, seen, log, last_line, train_data>>
    /\ UNCHANGED notTrain

\* model.train()
ModelTrain(here, next) ==
    /\ tpc = here
    /\ mode' = TrainMode
    /\ tpc' = next
    /\ UNCHANGED <<nb, updates, ITER, pos, sample, output, predicted, loss, total_loss,
                   train_correct, test_correct, pgrad, params, applied,
                   calls, seen, log, last_line, train_data>>
    /\ UNCHANGED notTrain

\* random.shuffle(train_data)
Shuffle ==
    /\ tpc = "shuffle"
    /\ train_data' \in Orders(train_data)
    /\ tpc' = "reset_train"
    /\ UNCHANGED <<nb, updates, ITER, pos, sample, output, predicted, loss, total_loss,
                   train_correct, test_correct, mode, pgrad, params, applied,
                   calls, seen, log, last_line>>
    /\ UNCHANGED notTrain

\* a faulty reset that leaves train_correct as it is
ResetLossOnly ==
    /\ tpc = "reset_train"
    /\ total_loss' = 0
    /\ pos' = 0
    /\ seen' = <<>>
    /\ tpc' = "for_train"
    /\ UNCHANGED <<nb, updates, ITER, sample, output, predicted, loss,
                   train_correct, test_correct, mode, pgrad, params, applied,
                   calls, log, last_line, train_data>>
    /\ UNCHANGED notTrain

\* total_loss = 0.0; train_correct = 0
ResetTrain ==
    /\ tpc = "reset_train"
    /\ total_loss' = 0
    /\ train_correct' = 0
    /\ pos' = 0
    /\ seen' = <<>>
    /\ tpc' = "for_train"
    /\ UNCHANGED <<nb, updates, ITER, sample, output, predicted, loss, test_correct,
                   mode, pgrad, params, applied, calls, log, last_line,
                   train_data>>
    /\ UNCHANGED notTrain

\* for sentence, tag in data: the next pair, or the end of the loop
ForSample(data, here, body, after) ==
    /\ tpc = here
    /\ IF Exhausted(data, pos)
       THEN /\ tpc' = after
            /\ UNCHANGED <<pos, sample, seen, calls>>
       ELSE /\ pos' = pos + 1
            /\ sample' = data[pos + 1]
            /\ seen' = IF here = "for_train"
                       THEN Append(seen, data[pos + 1]) ELSE seen
            /\ calls' = <<>>
            /\ tpc' = body
    /\ UNCHANGED <<nb, updates, ITER, output, predicted, loss, total_loss,
                   train_correct, test_correct, mode, pgrad, params, applied,
                   log, last_line, train_data>>
    /\ UNCHANGED notTrain

\* output = model(sentence) / output = model(x)
Forward(input, here, next) ==
    /\ tpc = here
    /\ output' = [ver |-> params, input |-> input]
    /\ calls' = Append(calls, "forward")
    /\ tpc' = next
    /\ UNCHANGED <<nb, updates, ITER, pos, sample, predicted, loss, total_loss,
                   train_correct, test_correct, mode, pgrad, params, applied,
                   seen, log, last_line, train_data>>
    /\ UNCHANGED notTrain

\* predicted = torch.argmax(output.data.detach()).item(): some tag index
Argmax(here, next) ==
    /\ tpc = here
    /\ \E tag \in 0..(number_of_tags - 1) :
          predicted' = [val |-> tag, ver |-> output.ver]
    /\ calls' = Append(calls, "argmax")
    /\ tpc' = next
    /\ UNCHANGED <<nb, updates, ITER, pos, sample, output, loss, total_loss,
                   train_correct, test_correct, mode, pgrad, params, applied,
                   seen, log, last_line, train_data>>
    /\ UNCHANGED notTrain

\* loss = criterion(output, tag) / loss = criterion(output, y)
Loss(target, here, next) ==
    /\ tpc = here
    /\ loss' = [ver |-> output.ver, input |-> output.input, target |-> target]
    /\ calls' = Append(calls, "loss")
    /\ tpc' = next
    /\ UNCHANGED <<nb, updates, ITER, pos, sample, output, predicted, total_loss,
                   train_correct, test_correct, mode, pgrad, params, applied,
                   seen, log, last_line, train_data>>
    /\ UNCHANGED notTrain

\* total_loss += loss.item()
AddLoss ==
    /\ tpc = "add_loss"
    /\ total_loss' = total_loss + 1
    /\ tpc' = "zero_grad"
    /\ UNCHANGED <<nb, updates, ITER, pos, sample, output, predicted, loss,
                   train_correct, test_correct, mode, pgrad, params, applied,
                   calls, seen, log, last_line, train_data>>
    /\ UNCHANGED notTrain

\* optimizer.zero_grad()
OptZeroGrad(here, next) ==
    /\ tpc = here
    /\ pgrad' = ZeroGrad(pgrad)
    /\ calls' = Append(calls, "zero_grad")
    /\ tpc' = next
    /\ UNCHANGED <<nb, updates, ITER, pos, sample, output, predicted, loss, total_loss,
                   train_correct, test_correct, mode, params, applied,
                   seen, log, last_line, train_data>>
    /\ UNCHANGED notTrain

\* loss.backward()
LossBackward(here, next) ==
    /\ tpc = here
    /\ pgrad' = BackwardGrad(pgrad, loss)
    /\ calls' = Append(calls, "backward")
    /\ tpc' = next
    /\ UNCHANGED <<nb, updates, ITER, pos, sample, output, predicted, loss, total_loss,
                   train_correct, test_correct, mode, params, applied,
                   seen, log, last_line, train_data>>
    /\ UNCHANGED notTrain

\* the tensors the model holds: BoW has the weight of its embedding and
\* self.bias, the hello-world model the weight of nn.Linear(1, 1, bias=False)
ModelTensors ==
    IF nb = "text" THEN {"embedding.weight", "bias"} ELSE {"0.weight"}

\* a faulty model that registers its bias as an nn.Parameter
ParametersWithBias ==
    IF nb = "text" THEN <<"embedding.weight", "bias">> ELSE <<"0.weight">>

\* model.parameters(), which the optimizer is given: the tensors registered
\* as nn.Parameter; self.bias = torch.zeros(...) is a plain attribute
ModelParameters ==
    IF nb = "text" THEN <<"embedding.weight">> ELSE <<"0.weight">>

\* the optimizer has been given the tensor
IsOptimized(tensor) ==
    \E k \in DOMAIN ModelParameters : ModelParameters[k] = tensor

\* the earlier steps whose gradients the optimizer still holds in its own
\* state when it makes step number n + 1: torch.optim.Adam keeps running
\* averages of the gradients of all its steps, torch.optim.SGD(lr=0.01)
\* without momentum keeps nothing
OptimizerMemory(n) == IF nb = "text" THEN n ELSE 0

\* optimizer.step(): the update is computed from the gradients of the
\* parameters and from the state of the optimizer
OptStep(here, next) ==
    /\ tpc = here
    /\ applied' = [grad |-> pgrad, earlier |-> OptimizerMemory(params)]
    /\ params' = Updated(params)
    /\ updates' = [tensor \in DOMAIN updates |->
                      IF IsOptimized(tensor) THEN Updated(updates[tensor])
                      ELSE updates[tensor]]
    /\ calls' = Append(calls, "step")
    /\ tpc' = next
    /\ UNCHANGED <<nb, ITER, pos, sample, output, predicted, loss, total_loss,
                   train_correct, test_correct, mode, pgrad,
                   seen, log, last_line, train_data>>
    /\ UNCHANGED notTrain

\* if predicted == tag: train_correct+=1
CountTrain ==
    /\ tpc = "count"
    /\ train_correct' =
          IF predicted.val = sample[2] THEN train_correct + 1
          ELSE train_correct
    /\ tpc' = "for_train"
    /\ UNCHANGED <<nb, updates, ITER, pos, sample, output, predicted, loss, total_loss,
                   test_correct, mode, pgrad, params, applied,
                   calls, seen, log, last_line, train_data>>
    /\ UNCHANGED notTrain

\* model.eval()
ModelEval(here, next) ==
    /\ tpc = here
    /\ mode' = EvalMode
    /\ tpc' = next
    /\ UNCHANGED <<nb, updates, ITER, pos, sample, output, predicted, loss, total_loss,
                   train_correct, test_correct, pgrad, params, applied,
                   calls, seen, log, last_line, train_data>>
    /\ UNCHANGED notTrain

\* test_correct = 0
ResetTest ==
    /\ tpc = "reset_test"
    /\ test_correct' = 0
    /\ pos' = 0
    /\ tpc' = "for_test"
    /\ UNCHANGED <<nb, updates, ITER, sample, output, predicted, loss, total_loss,
                   train_correct, mode, pgrad, params, applied,
                   calls, seen, log, last_line, train_data>>
    /\ UNCHANGED notTrain

\* if predicted == tag: test_correct += 1
CountTest ==
    /\ tpc = "t_count"
    /\ test_correct' =
          IF predicted.val = sample[2] THEN test_correct + 1
          ELSE test_correct
    /\ tpc' = "for_test"
    /\ UNCHANGED <<nb, updates, ITER, pos, sample, output, predicted, loss, total_loss,
                   train_correct, mode, pgrad, params, applied,
                   calls, seen, log, last_line, train_data>>
    /\ UNCHANGED notTrain

\* a faulty log line that shows the loop variable itself
LineNumberFromZero(i) == i

\* f'ITER: {ITER+1}' / f'epoch: {epoch+1}'
LineNumber(i) == i + 1

\* print(log): ITER+1, total_loss/len(train_data),
\* train_correct/len(train_data), test_correct/len(test_data)
PrintLog ==
    /\ tpc = "print"
    /\ log' = Append(log, LineNumber(ITER))
    /\ last_line' = [n |-> LineNumber(ITER),
                     loss |-> <<total_loss, Len(train_data)>>,
                     train_acc |-> <<train_correct, Len(train_data)>>,
                     test_acc |-> <<test_correct, Len(test_data)>>]
    /\ tpc' = "epoch"
    /\ UNCHANGED <<nb, updates, ITER, pos, sample, output, predicted, loss, total_loss,
                   train_correct, test_correct, mode, pgrad, params, applied,
                   calls, seen, train_data>>
    /\ UNCHANGED notTrain

\* print('Epoch: %d | Loss: %.4f' %(ITER, loss.detach().item()))
PrintHello ==
    /\ tpc = "h_print"
    /\ log' = Append(log, ITER)
    /\ last_line' = [n |-> ITER, loss |-> loss]
    /\ calls' = <<>>
    /\ tpc' = "h_epoch"
    /\ UNCHANGED <<nb, updates, ITER, pos, sample, output, predicted, loss, total_loss,
                   train_correct, test_correct, mode, pgrad, params, applied,
                   seen, train_data>>
    /\ UNCHANGED notTrain

\* no training loop runs
TrainIdle ==
    /\ nb = "off"
    /\ tpc = "off"
    /\ ITER = -1
    /\ pos = 0
    /\ sample = <<>>
    /\ output = NoOutput
    /\ predicted = [val |-> -1, ver |-> -1]
    /\ loss = <<>>
    /\ total_loss = 0
    /\ train_correct = 0
    /\ test_correct = 0
    /\ mode = "train"
    /\ pgrad = <<>>
    /\ params = 0
    /\ applied = NoUpdate
    /\ calls = <<>>
    /\ seen = <<>>
    /\ log = <<>>
    /\ last_line = <<>>
    /\ updates = <<>>

RECURSIVE CreateDict(_, _, _, _)
\* create_dict(data, check_unk) run to its end on records i.. of data,
\* from the dictionaries d.w (words) and d.t (tags)
CreateDict(d, data, check_unk, i) ==
    IF i > Len(data) THEN d
    ELSE CreateDict([w |-> AddWords(d.w, Split(data[i][2], " "), check_unk),
                     t |-> AddTag(d.t, data[i][1])],
                    data, check_unk, i + 1)

\* the first lines of data/classes/train.txt
TrainFile ==
    << << <<"0">>, <<"a", " ", "b">> >>,
       << <<"1">>, <<"b", " ", "c", " ", "b">> >>,
       << <<"0">>, OddSentence >>,
       << <<"1">>, <<"a", " ", "b">> >> >>

\* the first lines of data/classes/test.txt
TestFile ==
    << << <<"1">>, <<"b", " ", "c", " ", "b">> >>,
       << <<"0">>, <<"a", " ", "b">> >>,
       << <<"0">>, OddSentence >>,
       << <<"1">>, <<"a", " ", "b">> >> >>

\* the state in which the data-preparation cells leave the notebook
Prepared ==
    /\ dpc = "prepared"
    /\ \E n \in 1..MaxLines : train_raw = SubSeq(TrainFile, 1, n)
    /\ \E n \in 1..MaxLines : test_raw = SubSeq(TestFile, 1, n)
    /\ di = 1
    /\ LET init == [w |-> (UNK :> 0), t |-> <<>>]
           d == CreateDict(CreateDict(init, train_raw, FALSE, 1),
                           test_raw, TRUE, 1)
       IN  /\ word_to_index = d.w
           /\ tag_to_index = d.t
    /\ train_data = CreateTensor(train_raw)
    /\ test_data = CreateTensor(test_raw)
    /\ number_of_words = DictLen(word_to_index)
    /\ number_of_tags = DictLen(tag_to_index)

\* the model and the optimizer have been created; the loop is about to run
TrainInit ==
    /\ nb \in {"text", "hello"}
    /\ tpc = IF nb = "text" THEN "epoch" ELSE "h_epoch"
    /\ ITER = -1
    /\ pos = 0
    /\ sample = <<>>
    /\ output = NoOutput
    /\ predicted = [val |-> -1, ver |-> -1]
    /\ loss = <<>>
    /\ total_loss = 0
    /\ train_correct = 0
    /\ test_correct = 0
    /\ mode = "train"
    /\ pgrad = <<>>
    /\ params = 0
    /\ applied = NoUpdate
    /\ calls = <<>>
    /\ seen = <<>>
    /\ log = <<>>
    /\ last_line = <<>>
    /\ updates = [tensor \in ModelTensors |-> 0]
    /\ IF nb = "text" THEN Prepared ELSE DataIdle

TrainNext ==
    \/ RangeNext(Epochs, "epoch", "model_train", "done")
    \/ ModelTrain("model_train", "shuffle")
    \/ Shuffle
    \/ ResetTrain
    \/ ForSample(train_data, "for_train", "forward", "model_eval")
    \/ Forward(sample[1], "forward", "argmax")
    \/ Argmax("argmax", "loss")
    \/ Loss(sample[2], "loss", "add_loss")
    \/ AddLoss
    \/ OptZeroGrad("zero_grad", "backward")
    \/ LossBackward("backward", "step")
    \/ OptStep("step", "count")
    \/ CountTrain
    \/ ModelEval("model_eval", "reset_test")
    \/ ResetTest
    \/ ForSample(test_data, "for_test", "t_forward", "print")
    \/ Forward(sample[1], "t_forward", "t_argmax")
    \/ Argmax("t_argmax", "t_count")
    \/ CountTest
    \/ PrintLog
    \/ RangeNext(HelloIters, "h_epoch", "h_model_train", "done")
    \/ ModelTrain("h_model_train", "h_forward")
    \/ Forward(Batch[1], "h_forward", "h_loss")
    \/ Loss(Batch[2], "h_loss", "h_zero_grad")
    \/ OptZeroGrad("h_zero_grad", "h_backward")
    \/ LossBackward("h_backward", "h_step")
    \/ OptStep("h_step", "h_eval")
    \/ ModelEval("h_eval", "h_print")
    \/ PrintHello

(***************************************************************************)
(* The forward passes BoW.forward, CBoW.forward and DeepCBoW.forward.      *)
(* Tensors hold integers; a matrix is the list of its rows.  The weights   *)
(* that the library draws at random are a function of a seed.              *)
(***************************************************************************)

\* the weight the initialisation with seed s gives entry (i, j) of the
\* k-th parameter tensor: a value in -2..2
Weight(s, k, i, j) == (((s + 1) * (k + 3 * i + 5 * j)) % 5) - 2

\* nn.Embedding(nwords, width).weight: row w is the embedding of index w
EmbeddingWeight(width) ==
    [w \in 0..(FwdWords - 1) |-> [j \in 1..width |-> Weight(seed, 1, w, j)]]

\* self.embedding(x): the rows of the tokens of x, in the order of x
Embed(sentence, width) ==
    [i \in DOMAIN sentence |-> EmbeddingWeight(width)[sentence[i]]]

\* a faulty reduction that keeps the first row only
FirstRow(m, width) == m[1]

RECURSIVE SumRowsFrom(_, _, _)
SumRowsFrom(m, width, i) ==
    IF i > Len(m) THEN [j \in 1..width |-> 0]
    ELSE LET rest == SumRowsFrom(m, width, i + 1)
         IN  [j \in 1..width |-> m[i][j] + rest[j]]

\* torch.sum(emb, dim=0): the sum of the rows of emb
SumRows(m, width) == SumRowsFrom(m, width, 1)

\* out.view(1, -1): a matrix of one row
View1(v) == <<v>>

\* the sum a[1] * b[1] + ... + a[n] * b[n]
RECURSIVE Dot(_, _, _)
Dot(a, b, i) == IF i > Len(a) THEN 0 ELSE a[i] * b[i] + Dot(a, b, i + 1)

\* nn.Linear(nin, nout) applied to the rows of h: h W^T + b, with the k-th
\* parameter tensor as W and the (k+1)-th as b
Linear(h, nin, nout, k) ==
    [r \in DOMAIN h |->
        [o \in 1..nout |->
            Dot(h[r], [j \in 1..nin |-> Weight(seed, k, o, j)], 1)
                + Weight(seed, k + 1, o, 0)]]

\* torch.tanh on integers: its sign, the value it saturates to
Tanh(h) ==
    [r \in DOMAIN h |->
        [j \in DOMAIN h[r] |->
            IF h[r][j] > 0 THEN 1 ELSE IF h[r][j] < 0 THEN -1 ELSE 0]]

\* self.bias = torch.zeros(ntags)
BoWBias == [j \in 1..FwdTags |-> 0]

\* BoW.forward
BoWForward(sentence) ==
    LET emb == Embed(sentence, FwdTags)
        sum == SumRows(emb, FwdTags)
    IN  View1([j \in 1..FwdTags |-> sum[j] + BoWBias[j]])

\* CBoW.forward
CBoWForward(sentence) ==
    LET emb == Embed(sentence, EmbSize)
    IN  Linear(View1(SumRows(emb, EmbSize)), EmbSize, FwdTags, 2)

RECURSIVE HiddenLayers(_, _)
\* for i in range(self.num_layers): h = torch.tanh(self.linears[i](h))
HiddenLayers(h, i) ==
    IF i >= NumLayers THEN h
    ELSE HiddenLayers(
            Tanh(Linear(h, IF i = 0 THEN EmbSize ELSE HiddenSize, HiddenSize,
                        4 + 2 * i)),
            i + 1)

\* DeepCBoW.forward
DeepCBoWForward(sentence) ==
    LET emb == Embed(sentence, EmbSize)
        emb_sum == SumRows(emb, EmbSize)
        h == HiddenLayers(View1(emb_sum), 0)
    IN  Linear(h, HiddenSize, FwdTags, 4 + 2 * NumLayers)

\* model(sentence) for the model of the notebook
ModelForward(sentence) ==
    CASE arch = "BoW" -> BoWForward(sentence)
      [] arch = "CBoW" -> CBoWForward(sentence)
      [] arch = "DeepCBoW" -> DeepCBoWForward(sentence)

\* the tokens of the sentence are put in some order
PermuteInput ==
    /\ fpc = "permute"
    /\ sent2' \in Orders(sent)
    /\ fpc' = "forward"
    /\ UNCHANGED <<arch, seed, sent, out, out2>>
    /\ UNCHANGED notForward

\* the model is applied to both
ForwardBoth ==
    /\ fpc = "forward"
    /\ out' = ModelForward(sent)
    /\ out2' = ModelForward(sent2)
    /\ fpc' = "done"
    /\ UNCHANGED <<arch, seed, sent, sent2>>
    /\ UNCHANGED notForward

\* no forward pass is looked at
ForwardIdle ==
    /\ fpc = "off"
    /\ arch = "BoW"
    /\ seed = 0
    /\ sent = <<>>
    /\ sent2 = <<>>
    /\ out = <<>>
    /\ out2 = <<>>

\* a model with some initialisation and a sentence
ForwardInit ==
    /\ fpc = "permute"
    /\ arch \in {"BoW", "CBoW", "DeepCBoW"}
    /\ seed \in 0..MaxSeed
    /\ sent \in ListsUpTo(0..(FwdWords - 1), MaxSent)
    /\ sent2 = <<>>
    /\ out = <<>>
    /\ out2 = <<>>

ForwardNext ==
    \/ PermuteInput
    \/ ForwardBoth

(***************************************************************************)
(* The counterfactual-explanation notebook: the user is picked from the    *)
(* test set, CoGS searches a counterfactual example, the explanation is    *)
(* printed.  Three of the columns of the data set stand for all of them.   *)
(* A numpy array is its shape and the row-major list of its elements.      *)
(***************************************************************************)

\* feature_names = list(df.columns) without the label: three of them
feature_names == <<"purpose", "age", "foreign_worker">>

\* the values a feature takes
FeatureValues == {0, 1}

\* the rows of X
Points == [DOMAIN feature_names -> FeatureValues]

\* the classifiers that fitting can produce: the class is desired_class
\* where one feature reaches a threshold
Classifiers ==
    [feat : DOMAIN feature_names, thr : FeatureValues \cup {2}]

\* bbm.predict([point])[0]
BbmPredict(point) ==
    IF point[bbm.feat] >= bbm.thr THEN desired_class ELSE 0

\* the positions of the boolean array cond, counted from 0 as numpy counts
\* them, that hold True, in increasing order
RECURSIVE Where(_, _)
Where(cond, i) ==
    IF i > Len(cond) THEN <<>>
    ELSE (IF cond[i] THEN <<i - 1>> ELSE <<>>) \o Where(cond, i + 1)

\* np.argwhere(cond) for a one-dimensional cond: one row per position
\* where cond holds, each row holding that position
Argwhere(cond) ==
    LET found == Where(cond, 1)
    IN  [shape |-> <<Len(found), 1>>, data |-> found]

\* ndarray.squeeze(): every axis of length 1 is removed
Squeeze(a) ==
    [shape |-> SelectSeq(a.shape, LAMBDA d : d # 1), data |-> a.data]

\* a[-1] raises IndexError for an array without axes and for an empty array
CanIndexLast(a) == a.shape # <<>> /\ a.shape[1] > 0

\* a[-1] for a one-dimensional array
IndexLast(a) == a.data[a.shape[1]]

\* p != desired_class, element by element
Undesired(classes) == [i \in DOMAIN classes |-> classes[i] # desired_class]

\* p = bbm.predict(X_test)
Predict ==
    /\ cpc = "predict"
    /\ p' = [i \in DOMAIN X_test |-> BbmPredict(X_test[i])]
    /\ cpc' = "pick_idx"
    /\ UNCHANGED <<bbm, X_test, idx, x_user, elite, cf_example,
                   cf_explanation, stdout>>
    /\ UNCHANGED notExplain

\* idx = np.argwhere(p != desired_class).squeeze()[-1]
PickIdx ==
    /\ cpc = "pick_idx"
    /\ LET a == Squeeze(Argwhere(Undesired(p)))
       IN  IF CanIndexLast(a)
           THEN /\ idx' = IndexLast(a)
                /\ cpc' = "pick_x"
           ELSE /\ idx' = idx
                /\ cpc' = "error"
    /\ UNCHANGED <<bbm, X_test, p, x_user, elite, cf_example,
                   cf_explanation, stdout>>
    /\ UNCHANGED notExplain

\* x = X_test[idx]
PickX ==
    /\ cpc = "pick_x"
    /\ x_user' = X_test[idx + 1]
    /\ cpc' = "run"
    /\ UNCHANGED <<bbm, X_test, p, idx, elite, cf_example, cf_explanation,
                   stdout>>
    /\ UNCHANGED notExplain

\* cogs.run(): the search of the library leaves some point in cogs.elite
CogsRun ==
    /\ cpc = "run"
    /\ elite' \in Points
    /\ cpc' = "explain"
    /\ UNCHANGED <<bbm, X_test, p, idx, x_user, cf_example, cf_explanation,
                   stdout>>
    /\ UNCHANGED notExplain

\* a faulty cell that takes the user for the counterfactual example
ExplainUser ==
    /\ cpc = "explain"
    /\ cf_example' = x_user
    /\ cf_explanation' = [i \in DOMAIN elite |-> elite[i] - x_user[i]]
    /\ cpc' = "report"
    /\ UNCHANGED <<bbm, X_test, p, idx, x_user, elite, stdout>>
    /\ UNCHANGED notExplain

\* cf_example = cogs.elite; cf_explanation = cogs.elite - x
Explain ==
    /\ cpc = "explain"
    /\ cf_example' = elite
    /\ cf_explanation' = [i \in DOMAIN elite |-> elite[i] - x_user[i]]
    /\ cpc' = "report"
    /\ UNCHANGED <<bbm, X_test, p, idx, x_user, elite, stdout>>
    /\ UNCHANGED notExplain

\* a faulty test that takes only an increase for a change
Increased(d) == d > 0

\* cf_explanation[i] != 0
Changed(d) == d # 0

\* a printed line: which message, and for the line of a feature its name
\* and the two values
Line(msg, feat, from, to) ==
    [msg |-> msg, feat |-> feat, from |-> from, to |-> to]

RECURSIVE FeatureLines(_)
\* for i, feat in enumerate(feature_names): the lines from feature i on
FeatureLines(i) ==
    IF i > Len(feature_names) THEN <<>>
    ELSE (IF Changed(cf_explanation[i])
          THEN <<Line("change", feature_names[i], x_user[i], cf_example[i])>>
          ELSE <<>>)
         \o FeatureLines(i + 1)

\* the cell that shows the counterfactual explanation
Report ==
    /\ cpc = "report"
    /\ stdout' =
          IF BbmPredict(cf_example) = desired_class
          THEN <<Line("success", "", 0, 0)>> \o FeatureLines(1)
          ELSE <<Line("failed", "", 0, 0)>>
    /\ cpc' = "reported"
    /\ UNCHANGED <<bbm, X_test, p, idx, x_user, elite, cf_example,
                   cf_explanation>>
    /\ UNCHANGED notExplain

\* the notebook is not run
ExplainIdle ==
    /\ cpc = "off"
    /\ bbm = [feat |-> 1, thr |-> 0]
    /\ X_test = <<>>
    /\ p = <<>>
    /\ idx = -1
    /\ x_user = <<>>
    /\ elite = <<>>
    /\ cf_example = <<>>
    /\ cf_explanation = <<>>
    /\ stdout = <<>>

\* a fitted classifier and a test set
ExplainInit ==
    /\ cpc = "predict"
    /\ bbm \in Classifiers
    /\ X_test \in ListsUpTo(Points, MaxTest)
    /\ p = <<>>
    /\ idx = -1
    /\ x_user = <<>>
    /\ elite = <<>>
    /\ cf_example = <<>>
    /\ cf_explanation = <<>>
    /\ stdout = <<>>

ExplainNext ==
    \/ Predict
    \/ PickIdx
    \/ PickX
    \/ CogsRun
    \/ Explain
    \/ Report

(***************************************************************************)
(* The counterfactual-explanation notebook: the search space of CoGS.      *)
(* The columns of the data set come in some order; X_train has one column  *)
(* per feature name, in the order of the feature names.                    *)
(***************************************************************************)

\* categorical_feature_names
categorical_feature_names ==
    <<"purpose", "personal_status_sex", "other_debtors",
      "other_installment_plans", "telephone", "foreign_worker">>

\* label_name = 'credit_risk'
label_name == "credit_risk"

\* the columns of the data set the model keeps
Columns == <<"purpose", "age", "foreign_worker", "credit_risk">>

\* list.remove(item): the list without the first element equal to item
ListRemove(l, item) ==
    LET k == CHOOSE i \in DOMAIN l :
                 l[i] = item /\ \A j \in 1..(i - 1) : l[j] # item
    IN  SubSeq(l, 1, k - 1) \o SubSeq(l, k + 1, Len(l))

\* feature_names = list(df.columns); feature_names.remove(label_name)
FeatureNamesOf(columns) == ListRemove(columns, label_name)

\* a faulty test that looks at the first categorical name only
IsFirstCategorical(feat) == categorical_feature_names[1] = feat

\* feat in categorical_feature_names
IsCategorical(feat) ==
    \E k \in DOMAIN categorical_feature_names :
        categorical_feature_names[k] = feat

\* the index enumerate(...) gives the i-th element of a list: it counts
\* from 0
Enumerate(i) == i - 1

\* X[:, i] for an index i counted from 0: the column of the matrix
ColumnOf(X, i) == [r \in DOMAIN X |-> X[r][i + 1]]

\* np.min(a)
NpMin(a) == CHOOSE m \in { a[r] : r \in DOMAIN a } : \A r \in DOMAIN a : m <= a[r]

\* np.max(a)
NpMax(a) == CHOOSE m \in { a[r] : r \in DOMAIN a } : \A r \in DOMAIN a : m >= a[r]

RECURSIVE SortedFrom(_, _)
\* the elements of the set S of numbers that are at least lo, increasing
SortedFrom(S, lo) ==
    LET rest == { v \in S : v >= lo }
    IN  IF rest = {} THEN <<>>
        ELSE LET m == CHOOSE v \in rest : \A w \in rest : v <= w
             IN  <<m>> \o SortedFrom(S, m + 1)

\* np.unique(a): the distinct elements of a, sorted
NpUnique(a) ==
    LET S == { a[r] : r \in DOMAIN a }
    IN  IF S = {} THEN <<>>
        ELSE SortedFrom(S, CHOOSE v \in S : \A w \in S : v <= w)

RECURSIVE IntervalsFrom(_, _, _)
\* for i, feat in enumerate(feature_names): feature_intervals.append(...)
\* from the k-th feature name on
IntervalsFrom(names, X, k) ==
    IF k > Len(names) THEN <<>>
    ELSE LET col == ColumnOf(X, Enumerate(k))
             interval_i == IF IsCategorical(names[k])
                           THEN NpUnique(col)
                           ELSE <<NpMin(col), NpMax(col)>>
         IN  <<interval_i>> \o IntervalsFrom(names, X, k + 1)

RECURSIVE CategoricalFrom(_, _)
\* [i for i, feat in enumerate(feature_names)
\*  if feat in categorical_feature_names] from the k-th feature name on
CategoricalFrom(names, k) ==
    IF k > Len(names) THEN <<>>
    ELSE (IF IsCategorical(names[k]) THEN <<Enumerate(k)>> ELSE <<>>)
         \o CategoricalFrom(names, k + 1)

\* a faulty constraint that lets age only decrease
ConstraintAgeDown(feat) ==
    IF feat = "age" THEN "<="
    ELSE IF feat = "foreign_worker" THEN "=" ELSE "None"

\* '>=' if feat=='age' else ('=' if feat=='foreign_worker' else None)
Constraint(feat) ==
    IF feat = "age" THEN ">="
    ELSE IF feat = "foreign_worker" THEN "=" ELSE "None"

\* the loop that sets feature_intervals
SetIntervals ==
    /\ spc = "intervals"
    /\ feature_intervals' = IntervalsFrom(FeatureNamesOf(df_columns), X_train, 1)
    /\ spc' = "categorical"
    /\ UNCHANGED <<df_columns, X_train, indices_categorical_features, pcs>>
    /\ UNCHANGED notSearch

\* indices_categorical_features = [...]
SetCategorical ==
    /\ spc = "categorical"
    /\ indices_categorical_features' =
          CategoricalFrom(FeatureNamesOf(df_columns), 1)
    /\ spc' = "pcs"
    /\ UNCHANGED <<df_columns, X_train, feature_intervals, pcs>>
    /\ UNCHANGED notSearch

\* pcs = [... for feat in feature_names]
SetPcs ==
    /\ spc = "pcs"
    /\ pcs' = [k \in DOMAIN FeatureNamesOf(df_columns) |->
                  Constraint(FeatureNamesOf(df_columns)[k])]
    /\ spc' = "done"
    /\ UNCHANGED <<df_columns, X_train, feature_intervals,
                   indices_categorical_features>>
    /\ UNCHANGED notSearch

\* the notebook is not run
SearchIdle ==
    /\ spc = "off"
    /\ df_columns = <<>>
    /\ X_train = <<>>
    /\ feature_intervals = <<>>
    /\ indices_categorical_features = <<>>
    /\ pcs = <<>>

\* the data set has been read and split
SearchInit ==
    /\ spc = "intervals"
    /\ df_columns \in Orders(Columns)
    /\ X_train \in ListsUpTo(Points, MaxTrain)
    /\ feature_intervals = <<>>
    /\ indices_categorical_features = <<>>
    /\ pcs = <<>>

SearchNext ==
    \/ SetIntervals
    \/ SetCategorical
    \/ SetPcs

(***************************************************************************)
(* The neural network written from scratch: Neural_Network.forward,        *)
(* backward and train, and the cell that trains it.  A tensor is named by  *)
(* what it was computed from: a weight matrix by the number of updates it  *)
(* has had, an activation by the forward call that left it.                *)
(***************************************************************************)

\* no tensor has been stored
None == [none |-> TRUE]

\* self.z2 = self.sigmoid(torch.matmul(X, self.W1)) in forward call number n
HiddenActivation(n, input, w1) == [call |-> n, input |-> input, W1 |-> w1]

\* o = self.sigmoid(torch.matmul(self.z2, self.W2))
OutputActivation(hidden, w2) == [z2 |-> hidden, W2 |-> w2]

\* a faulty test that prints in the round after each hundredth
IsPrintRoundLate(i) == (i % PrintEvery) = 1

\* (i % 100) == 0
IsPrintRound(i) == (i % PrintEvery) = 0

\* for i in range(1000): the next round, or the end of the loop
NNLoop ==
    /\ npc = "for"
    /\ IF round + 1 < Rounds
       THEN /\ round' = round + 1
            /\ npc' = "if"
       ELSE /\ round' = round
            /\ npc' = "save"
    /\ UNCHANGED <<W1, W2, forwards, z2, nn_o, o_error, o_delta, z2_error,
                   z2_delta, W1_from, W2_from, saved, printed>>
    /\ UNCHANGED notScratch

\* print("#" + str(i) + " Loss: " + str(torch.mean((y - NN(X))**2)...)):
\* NN(X) calls forward, which stores self.z2
PrintLoss ==
    /\ npc = "if"
    /\ IsPrintRound(round)
    /\ forwards' = forwards + 1
    /\ z2' = HiddenActivation(forwards + 1, "X", W1)
    /\ printed' = Append(printed, [line |-> "loss", i |-> round,
                                   W1 |-> W1, W2 |-> W2])
    /\ npc' = "train"
    /\ UNCHANGED <<round, W1, W2, nn_o, o_error, o_delta, z2_error, z2_delta,
                   W1_from, W2_from, saved>>
    /\ UNCHANGED notScratch

\* the round is not one that prints
SkipPrint ==
    /\ npc = "if"
    /\ ~IsPrintRound(round)
    /\ npc' = "train"
    /\ UNCHANGED <<round, W1, W2, forwards, z2, nn_o, o_error, o_delta,
                   z2_error, z2_delta, W1_from, W2_from, saved, printed>>
    /\ UNCHANGED notScratch

\* a faulty train that hands backward the output of the call before
TrainStale ==
    /\ npc = "train"
    /\ nn_o' = OutputActivation(z2, W2)
    /\ npc' = "o_error"
    /\ UNCHANGED <<round, W1, W2, forwards, z2, o_error, o_delta, z2_error,
                   z2_delta, W1_from, W2_from, saved, printed>>
    /\ UNCHANGED notScratch

\* train: o = self.forward(X)
TrainForward ==
    /\ npc = "train"
    /\ forwards' = forwards + 1
    /\ z2' = HiddenActivation(forwards + 1, "X", W1)
    /\ nn_o' = OutputActivation(HiddenActivation(forwards + 1, "X", W1), W2)
    /\ npc' = "o_error"
    /\ UNCHANGED <<round, W1, W2, o_error, o_delta, z2_error, z2_delta,
                   W1_from, W2_from, saved, printed>>
    /\ UNCHANGED notScratch

\* backward: self.o_error = y - o
OutputError ==
    /\ npc = "o_error"
    /\ o_error' = [o |-> nn_o]
    /\ npc' = "o_delta"
    /\ UNCHANGED <<round, W1, W2, forwards, z2, nn_o, o_delta, z2_error,
                   z2_delta, W1_from, W2_from, saved, printed>>
    /\ UNCHANGED notScratch

\* backward: self.o_delta = self.o_error * self.sigmoidPrime(o)
OutputDelta ==
    /\ npc = "o_delta"
    /\ o_delta' = [o_error |-> o_error, o |-> nn_o]
    /\ npc' = "z2_error"
    /\ UNCHANGED <<round, W1, W2, forwards, z2, nn_o, o_error, z2_error,
                   z2_delta, W1_from, W2_from, saved, printed>>
    /\ UNCHANGED notScratch

\* backward: self.z2_error = torch.matmul(self.o_delta, torch.t(self.W2))
HiddenError ==
    /\ npc = "z2_error"
    /\ z2_error' = [o_delta |-> o_delta, W2 |-> W2]
    /\ npc' = "z2_delta"
    /\ UNCHANGED <<round, W1, W2, forwards, z2, nn_o, o_error, o_delta,
                   z2_delta, W1_from, W2_from, saved, printed>>
    /\ UNCHANGED notScratch

\* backward: self.z2_delta = self.z2_error * self.sigmoidPrime(self.z2)
HiddenDelta ==
    /\ npc = "z2_delta"
    /\ z2_delta' = [z2_error |-> z2_error, z2 |-> z2]
    /\ npc' = "W1"
    /\ UNCHANGED <<round, W1, W2, forwards, z2, nn_o, o_error, o_delta,
                   z2_error, W1_from, W2_from, saved, printed>>
    /\ UNCHANGED notScratch

\* backward: self.W1 += torch.matmul(torch.t(X), self.z2_delta)
UpdateW1 ==
    /\ npc = "W1"
    /\ W1' = W1 + 1
    /\ W1_from' = [X |-> "X", z2_delta |-> z2_delta]
    /\ npc' = "W2"
    /\ UNCHANGED <<round, W2, forwards, z2, nn_o, o_error, o_delta, z2_error,
                   z2_delta, W2_from, saved, printed>>
    /\ UNCHANGED notScratch

\* backward: self.W2 += torch.matmul(torch.t(self.z2), self.o_delta)
UpdateW2 ==
    /\ npc = "W2"
    /\ W2' = W2 + 1
    /\ W2_from' = [z2 |-> z2, o_delta |-> o_delta]
    /\ npc' = "for"
    /\ UNCHANGED <<round, W1, forwards, z2, nn_o, o_error, o_delta, z2_error,
                   z2_delta, W1_from, saved, printed>>
    /\ UNCHANGED notScratch

\* NN.saveWeights(NN): torch.save(model, "NN")
SaveWeights ==
    /\ npc = "save"
    /\ saved' = [W1 |-> W1, W2 |-> W2]
    /\ npc' = "predict"
    /\ UNCHANGED <<round, W1, W2, forwards, z2, nn_o, o_error, o_delta,
                   z2_error, z2_delta, W1_from, W2_from, printed>>
    /\ UNCHANGED notScratch

\* NN.predict(): three prints, the last of self.forward(xPredicted)
NNPredict ==
    /\ npc = "predict"
    /\ forwards' = forwards + 1
    /\ z2' = HiddenActivation(forwards + 1, "xPredicted", W1)
    /\ printed' = printed \o
          << [line |-> "Predicted data based on trained weights: ",
              i |-> round, W1 |-> W1, W2 |-> W2],
             [line |-> "Input (scaled): ", i |-> round, W1 |-> W1, W2 |-> W2],
             [line |-> "Output: ", i |-> round, W1 |-> W1, W2 |-> W2] >>
    /\ npc' = "finished"
    /\ UNCHANGED <<round, W1, W2, nn_o, o_error, o_delta, z2_error, z2_delta,
                   W1_from, W2_from, saved>>
    /\ UNCHANGED notScratch

\* print("Finished training!")
PrintFinished ==
    /\ npc = "finished"
    /\ printed' = Append(printed, [line |-> "Finished training!",
                                   i |-> round, W1 |-> W1, W2 |-> W2])
    /\ npc' = "done"
    /\ UNCHANGED <<round, W1, W2, forwards, z2, nn_o, o_error, o_delta,
                   z2_error, z2_delta, W1_from, W2_from, saved>>
    /\ UNCHANGED notScratch

\* the notebook is not run
ScratchIdle ==
    /\ npc = "off"
    /\ round = -1
    /\ W1 = 0
    /\ W2 = 0
    /\ forwards = 0
    /\ z2 = None
    /\ nn_o = None
    /\ o_error = None
    /\ o_delta = None
    /\ z2_error = None
    /\ z2_delta = None
    /\ W1_from = None
    /\ W2_from = None
    /\ saved = None
    /\ printed = <<>>

\* NN = Neural_Network(): the weights are drawn, the loop is about to run
ScratchInit ==
    /\ npc = "for"
    /\ round = -1
    /\ W1 = 0
    /\ W2 = 0
    /\ forwards = 0
    /\ z2 = None
    /\ nn_o = None
    /\ o_error = None
    /\ o_delta = None
    /\ z2_error = None
    /\ z2_delta = None
    /\ W1_from = None
    /\ W2_from = None
    /\ saved = None
    /\ printed = <<>>

ScratchNext ==
    \/ NNLoop
    \/ PrintLoss
    \/ SkipPrint
    \/ TrainForward
    \/ OutputError
    \/ OutputDelta
    \/ HiddenError
    \/ HiddenDelta
    \/ UpdateW1
    \/ UpdateW2
    \/ SaveWeights
    \/ NNPredict
    \/ PrintFinished

-----------------------------------------------------------------------------
(***************************************************************************)
(* Reading the data files: read_data, followed by the create_dict calls   *)
(* of the next cell.  A line is the sequence of its symbols, the line     *)
(* terminator included, as iteration over the open file yields it.        *)
(***************************************************************************)

\* the longest file, in lines
MaxFile == 2

\* the separator ' ||| '
Sep == <<" ", "|", "|", "|", " ">>

\* the symbols str.strip() removes
Whitespace == {" ", "\n", "\t"}

\* lines of a training file: "1 ||| a b", "0 ||| B c b " with a capital
\* and a space at its end, an empty line, "0 ||| " without a text,
\* "1 ||| A" after a tab, and "0 ||| a ||| b" with two separators
TrainLines ==
    { <<"1", " ", "|", "|", "|", " ", "a", " ", "b", "\n">>,
      <<"0", " ", "|", "|", "|", " ", "B", " ", "c", " ", "b", " ", "\n">>,
      <<"\n">>,
      <<"0", " ", "|", "|", "|", " ", "\n">>,
      <<"\t", "1", " ", "|", "|", "|", " ", "A", "\n">>,
      <<"0", " ", "|", "|", "|", " ", "a", " ", "|", "|", "|", " ", "b",
        "\n">> }

\* lines of a test file: "1 ||| C b" and an empty line
TestLines ==
    { <<"1", " ", "|", "|", "|", " ", "C", " ", "b", "\n">>,
      <<"\n">> }

\* str.lower() of one symbol
LowerSymbol(c) ==
    CASE c = "A" -> "a"
      [] c = "B" -> "b"
      [] c = "C" -> "c"
      [] OTHER -> c

\* str.lower()
Lower(str) == [k \in DOMAIN str |-> LowerSymbol(str[k])]

RECURSIVE StripLeft(_)
\* str.lstrip()
StripLeft(str) ==
    IF str # <<>> /\ Head(str) \in Whitespace THEN StripLeft(Tail(str))
    ELSE str

RECURSIVE StripRight(_)
\* str.rstrip()
StripRight(str) ==
    IF str # <<>> /\ str[Len(str)] \in Whitespace
    THEN StripRight(SubSeq(str, 1, Len(str) - 1))
    ELSE str

\* a faulty strip that removes the line terminator only
StripNewline(str) ==
    IF str # <<>> /\ str[Len(str)] = "\n"
    THEN SubSeq(str, 1, Len(str) - 1)
    ELSE str

\* str.strip()
Strip(str) == StripRight(StripLeft(str))

\* sep occurs in str at position k
OccursAt(str, sep, k) ==
    /\ k + Len(sep) - 1 <= Len(str)
    /\ SubSeq(str, k, k + Len(sep) - 1) = sep

\* sep in str
Contains(str, sep) == \E k \in DOMAIN str : OccursAt(str, sep, k)

RECURSIVE SplitOn(_, _)
\* str.split(sep) for a separator of several symbols: the pieces between
\* the occurrences of sep, found from the left, empty pieces included
SplitOn(str, sep) ==
    IF ~Contains(str, sep) THEN <<str>>
    ELSE LET k == CHOOSE k \in DOMAIN str :
                      /\ OccursAt(str, sep, k)
                      /\ \A j \in 1..(k - 1) : ~OccursAt(str, sep, j)
         IN  <<SubSeq(str, 1, k - 1)>>
                \o SplitOn(SubSeq(str, k + Len(sep), Len(str)), sep)

\* line = line.lower().strip(); line = line.split(' ||| ')
ReadRecord(ln) == SplitOn(Strip(Lower(ln)), Sep)

\* read_data: one pass of the loop over the lines of the file
ReadLine(file, here) ==
    /\ rpc = here
    /\ ri <= Len(file)
    /\ records' = Append(records, ReadRecord(file[ri]))
    /\ ri' = ri + 1
    /\ UNCHANGED <<rpc, train_txt, test_txt>>
    /\ UNCHANGED dvars
    /\ UNCHANGED notRead

\* train_data = read_data('data/classes/train.txt')
ReadTrainReturn ==
    /\ rpc = "read_train"
    /\ ri = Len(train_txt) + 1
    /\ train_raw' = records
    /\ records' = <<>>
    /\ ri' = 1
    /\ rpc' = "read_test"
    /\ UNCHANGED <<train_txt, test_txt>>
    /\ UNCHANGED <<dpc, test_raw, di, word_to_index, tag_to_index,
                   train_data, test_data, number_of_words, number_of_tags>>
    /\ UNCHANGED notRead

\* test_data = read_data('data/classes/test.txt'), and the first
\* statements of the next cell: word_to_index = {"<unk>": 0} and
\* tag_to_index = {}
ReadTestReturn ==
    /\ rpc = "read_test"
    /\ ri = Len(test_txt) + 1
    /\ test_raw' = records
    /\ records' = <<>>
    /\ ri' = 1
    /\ rpc' = "read"
    /\ word_to_index' = (UNK :> 0)
    /\ tag_to_index' = <<>>
    /\ dpc' = "dict_train"
    /\ UNCHANGED <<train_txt, test_txt>>
    /\ UNCHANGED <<train_raw, di, train_data, test_data, number_of_words,
                   number_of_tags>>
    /\ UNCHANGED notRead

\* the notebook has not been opened
ReadIdle ==
    /\ rpc = "off"
    /\ train_txt = <<>>
    /\ test_txt = <<>>
    /\ ri = 1
    /\ records = <<>>

\* the two files are on the disk; read_data is about to be called
ReadInit ==
    /\ rpc = "read_train"
    /\ train_txt \in ListsUpTo(TrainLines, MaxFile)
    /\ test_txt \in ListsUpTo(TestLines, MaxFile)
    /\ ri = 1
    /\ records = <<>>

ReadNext ==
    \/ ReadLine(train_txt, "read_train")
    \/ ReadTrainReturn
    \/ ReadLine(test_txt, "read_test")
    \/ ReadTestReturn
    \/ CreateDictLine(train_raw, FALSE, "dict_train")
    \/ CreateDictReturn(train_raw, "dict_train", "dict_test")
    \/ CreateDictLine(test_raw, TRUE, "dict_test")
    \/ CreateDictReturn(test_raw, "dict_test", "tensor_train")

-----------------------------------------------------------------------------
(* Specifications: one per notebook *)

InitGraph ==
    GraphInit /\ DataIdle /\ TrainIdle /\ ForwardIdle /\ ExplainIdle /\ SearchIdle /\ ScratchIdle /\ ReadIdle

SpecGraph == InitGraph /\ [][GraphNext]_vars

InitData ==
    DataInit /\ GraphIdle /\ TrainIdle /\ ForwardIdle /\ ExplainIdle /\ SearchIdle /\ ScratchIdle /\ ReadIdle

SpecData == InitData /\ [][DataNext]_vars

InitTrain == TrainInit /\ GraphIdle /\ ForwardIdle /\ ExplainIdle /\ SearchIdle /\ ScratchIdle /\ ReadIdle

SpecTrain == InitTrain /\ [][TrainNext]_vars

InitForward ==
    ForwardInit /\ GraphIdle /\ DataIdle /\ TrainIdle /\ ExplainIdle /\ SearchIdle /\ ScratchIdle /\ ReadIdle

SpecForward == InitForward /\ [][ForwardNext]_vars

InitExplain ==
    ExplainInit /\ GraphIdle /\ DataIdle /\ TrainIdle /\ ForwardIdle /\ SearchIdle /\ ScratchIdle /\ ReadIdle

SpecExplain == InitExplain /\ [][ExplainNext]_vars

InitSearch ==
    SearchInit /\ GraphIdle /\ DataIdle /\ TrainIdle /\ ForwardIdle /\ ExplainIdle /\ ScratchIdle /\ ReadIdle

SpecSearch == InitSearch /\ [][SearchNext]_vars

InitScratch ==
    ScratchInit /\ GraphIdle /\ DataIdle /\ TrainIdle /\ ForwardIdle /\ ExplainIdle /\ SearchIdle /\ ReadIdle

SpecScratch == InitScratch /\ [][ScratchNext]_vars

InitRead ==
    ReadInit /\ GraphIdle /\ DataIdle /\ TrainIdle /\ ForwardIdle /\ ExplainIdle /\ SearchIdle /\ ScratchIdle

SpecRead == InitRead /\ [][ReadNext]_vars

-----------------------------------------------------------------------------
\* C1: after e.backward() the stored gradients are a.grad = d,
\* b.grad = c + d (both paths from b are added), c.grad = d, d.grad = c and
\* e.grad = 1; for a = 2, b = 1 the value of e is 6 and the gradients are
\* 2, 5, 2, 3, 1.
C1_Gradients ==
    gpc = "printed" =>
        /\ DOMAIN grad = {"a", "b", "c", "d", "e"}
        /\ val["c"] = val["a"] + val["b"]
        /\ val["d"] = val["b"] + 1
        /\ val["e"] = val["c"] * val["d"]
        /\ grad["a"] = val["d"]
        /\ grad["b"] = val["c"] + val["d"]
        /\ grad["c"] = val["d"]
        /\ grad["d"] = val["c"]
        /\ grad["e"] = 1
        /\ (val["a"] = 2 /\ val["b"] = 1) =>
              /\ val["e"] = 6
              /\ <<grad["a"], grad["b"], grad["c"], grad["d"], grad["e"]>>
                    = <<2, 5, 2, 3, 1>>

\* the notebook's own inputs, after the gradients were printed
C1_Witness ==
    /\ gpc = "printed"
    /\ val["a"] = 2
    /\ val["b"] = 1
    /\ grad["b"] = 5


RECURSIVE Flat(_, _)
\* the words of the first n records of data, in reading order
Flat(data, n) ==
    IF n = 0 THEN <<>>
    ELSE Flat(data, n - 1)
            \o (IF HasText(data[n]) THEN Split(data[n][2], " ") ELSE <<>>)

\* the set of the elements of a sequence
Range(seq) == { seq[i] : i \in DOMAIN seq }

\* the position at which w occurs first in seq
FirstPos(seq, w) ==
    CHOOSE i \in DOMAIN seq : seq[i] = w /\ \A j \in 1..(i - 1) : seq[j] # w

\* first-occurrence rank of w in seq: "<unk>" has 0, the first new word 1
Rank(seq, w) ==
    IF w = UNK THEN 0
    ELSE 1 + Cardinality({ seq[j] : j \in 1..(FirstPos(seq, w) - 1) } \ {UNK})

TrainWords == Flat(train_raw, Len(train_raw))

\* create_dict(train_data) has returned and nothing else has run since
AfterTrainPass == dpc = "dict_test" /\ di = 1

\* C2: after create_dict(train_data) with check_unk=False, word_to_index
\* maps "<unk>" to 0 and every distinct training word to its own index, in
\* first-occurrence order: the values are exactly 0..n-1, without a gap and
\* without two words sharing an index.
C2_TrainIndices ==
    AfterTrainPass =>
        /\ word_to_index[UNK] = 0
        /\ DOMAIN word_to_index = Range(TrainWords) \cup {UNK}
        /\ \A w \in Range(TrainWords) : word_to_index[w] = Rank(TrainWords, w)
        /\ { word_to_index[w] : w \in DOMAIN word_to_index }
              = 0..(DictLen(word_to_index) - 1)
        /\ \A u, v \in DOMAIN word_to_index :
              u # v => word_to_index[u] # word_to_index[v]

\* two training lines with a repeated word: "a b" then "b c b"
C2_Witness ==
    /\ AfterTrainPass
    /\ train_raw = << << <<"0">>, <<"a", " ", "b">> >>,
                      << <<"1">>, <<"b", " ", "c", " ", "b">> >> >>
    /\ word_to_index =
          (UNK :> 0) @@ (<<"a">> :> 1) @@ (<<"b">> :> 2) @@ (<<"c">> :> 3)

\* C3: after create_dict(test_data, check_unk=True) every test word that did
\* not occur in training is encoded with the index of "<unk>" (0), every
\* test word that did occur keeps its training index, and the test pass
\* changes the index of no word that was already known.
C3_TestUnknowns ==
    /\ [](dpc \in {"count", "prepared"} =>
            \A i \in DOMAIN test_raw :
                LET words == Split(test_raw[i][2], " ")
                IN  /\ Len(test_data[i][1]) = Len(words)
                    /\ \A j \in DOMAIN words :
                          /\ word_to_index[words[j]] = test_data[i][1][j]
                          /\ test_data[i][1][j] =
                                IF words[j] \in Range(TrainWords)
                                THEN Rank(TrainWords, words[j])
                                ELSE 0)
    /\ [][dpc = "dict_test" =>
            \A w \in DOMAIN word_to_index :
                /\ w \in DOMAIN word_to_index'
                /\ word_to_index'[w] = word_to_index[w]]_vars

\* training on "a b", testing on "b c b": b is known, c is not
C3_Witness ==
    /\ dpc = "prepared"
    /\ train_raw = << << <<"0">>, <<"a", " ", "b">> >> >>
    /\ test_raw = << << <<"1">>, <<"b", " ", "c", " ", "b">> >> >>
    /\ test_data[1][1] = <<2, 0, 2>>


\* how often x occurs in seq
Count(seq, x) == Cardinality({ i \in DOMAIN seq : seq[i] = x })

\* seq1 and seq2 hold the same elements, each as often
SameBag(seq1, seq2) ==
    /\ Len(seq1) = Len(seq2)
    /\ \A x \in Range(seq1) \cup Range(seq2) : Count(seq1, x) = Count(seq2, x)

\* the statements of one epoch in the order of the code, the head of an
\* inner loop after the last statement of its body
StmtOrder ==
    << "epoch", "model_train", "shuffle", "reset_train",
       "forward", "argmax", "loss", "add_loss", "zero_grad", "backward",
       "step", "count", "for_train",
       "model_eval", "reset_test",
       "t_forward", "t_argmax", "t_count", "for_test",
       "print",
       "h_epoch", "h_model_train", "h_forward", "h_loss", "h_zero_grad",
       "h_backward", "h_step", "h_eval", "h_print",
       "done" >>

StmtIndex(l) == CHOOSE i \in DOMAIN StmtOrder : StmtOrder[i] = l

TrainLoop == { "forward", "argmax", "loss", "add_loss", "zero_grad",
               "backward", "step", "count", "for_train" }

TestLoop == { "t_forward", "t_argmax", "t_count", "for_test" }

\* from model.eval() to the print of the epoch
EvalPhase == { "model_eval", "reset_test", "print" } \cup TestLoop

\* the part of the epoch the loop is in
Phase ==
    IF tpc \in TrainLoop THEN 1
    ELSE IF tpc \in {"model_eval", "reset_test"} THEN 2
    ELSE IF tpc \in TestLoop THEN 3
    ELSE IF tpc = "print" THEN 4
    ELSE 0

\* how far the run has come: epochs begun, part of the epoch, samples taken
\* by the inner loop, statement
Progress ==
    << IF tpc \in {"epoch", "h_epoch"} THEN ITER + 1
       ELSE IF tpc = "done" THEN ITER + 2
       ELSE ITER,
       Phase, pos, StmtIndex(tpc) >>

RECURSIVE LexLess(_, _)
LexLess(m1, m2) ==
    /\ m1 # <<>>
    /\ \/ Head(m1) < Head(m2)
       \/ Head(m1) = Head(m2) /\ LexLess(Tail(m1), Tail(m2))

\* the number of passes of the outer loop of the notebook that runs
Passes == IF nb = "text" THEN Epochs ELSE HelloIters

\* C5: every training run ends after a fixed number of passes: the text
\* classifiers run exactly 10 epochs, each of which takes every training
\* example exactly once (shuffle only reorders train_data), which makes
\* 10 * len(train_data) optimizer steps; the hello-world loop makes exactly
\* 150 optimizer steps.  Every step of the loop advances it, no step is
\* blocked before the end, and the counters stay within their ranges.
C5_FixedPasses ==
    /\ [](nb \in {"text", "hello"} =>
            /\ tpc # "done" => ENABLED TrainNext
            /\ ITER \in -1..(Passes - 1)
            /\ pos \in 0..(Len(train_data) + Len(test_data))
            /\ tpc \in EvalPhase =>
                  /\ SameBag(seen, train_data)
                  /\ SameBag(seen, CreateTensor(train_raw))
                  /\ params = (ITER + 1) * Len(train_data)
            /\ (tpc = "done" /\ nb = "text") =>
                  /\ ITER = Epochs - 1
                  /\ params = 10 * Len(train_data)
            /\ (tpc = "done" /\ nb = "hello") =>
                  /\ ITER = HelloIters - 1
                  /\ params = 150)
    /\ [][LexLess(Progress, Progress')]_vars

\* a text classifier has run to its end on two training examples
C5_Witness ==
    /\ nb = "text"
    /\ tpc = "done"
    /\ Len(train_data) = 2
    /\ params = 20

\* the training sample the inner loop is at, as its loss names it
CurrentLoss(ver) ==
    IF nb = "text"
    THEN [ver |-> ver, input |-> sample[1], target |-> sample[2]]
    ELSE [ver |-> ver, input |-> Batch[1], target |-> Batch[2]]

\* C6, as stated: within one training step the calls are forward, argmax,
\* loss, zero_grad, backward, step, in this order; the gradients are cleared
\* before every backward pass, so that each parameter update uses the
\* gradient of the current sample only and nothing of an earlier sample; the
\* prediction that is counted was made with the parameters of before the
\* update.
C6_CurrentSampleOnly ==
    /\ tpc = "count" =>
          /\ calls = <<"forward", "argmax", "loss", "zero_grad", "backward",
                       "step">>
          /\ applied = [grad |-> <<CurrentLoss(params - 1)>>, earlier |-> 0]
          /\ predicted.ver = params - 1
    /\ tpc = "h_eval" =>
          /\ calls = <<"forward", "loss", "zero_grad", "backward", "step">>
          /\ applied = [grad |-> <<CurrentLoss(params - 1)>>, earlier |-> 0]

\* C6, amended: within one training step the calls are forward, argmax,
\* loss, zero_grad, backward, step, in this order (the hello-world loop has
\* no argmax); the gradients are empty when backward runs, so the gradient
\* handed to optimizer.step() is that of the current sample's loss only,
\* taken at the parameters of before the update; the SGD update of the
\* hello-world loop uses nothing else, the Adam update of the text
\* classifiers also uses the optimizer's running averages over all earlier
\* steps; the prediction that is counted was made with the parameters of
\* before the update.
C6_StepOrder ==
    /\ tpc = "count" =>
          /\ calls = <<"forward", "argmax", "loss", "zero_grad", "backward",
                       "step">>
          /\ applied.grad = <<CurrentLoss(params - 1)>>
          /\ applied.earlier = params - 1
          /\ output.ver = params - 1
          /\ output.input = sample[1]
          /\ predicted.ver = params - 1
    /\ tpc = "h_eval" =>
          /\ calls = <<"forward", "loss", "zero_grad", "backward", "step">>
          /\ applied.grad = <<CurrentLoss(params - 1)>>
          /\ applied.earlier = 0
    /\ tpc \in {"backward", "h_backward"} => pgrad = <<>>
    /\ tpc \in {"step", "h_step"} => pgrad = <<CurrentLoss(params)>>

\* the second sample of the second epoch has been used for an update
C6_Witness ==
    /\ nb = "text"
    /\ tpc = "count"
    /\ ITER = 1
    /\ pos = 2
    /\ params = Len(train_data) + 2
    /\ Len(applied.grad) = 1
    /\ applied.earlier = Len(train_data) + 1

\* the lines printed so far are numbered 1, 2, ...
Numbered(l) == \A i \in DOMAIN l : l[i] = i

\* C7: the text classifiers print exactly one line per epoch, after the
\* test evaluation of that epoch, numbered 1, 2, ..., 10 in this order, with
\* the train loss per sentence, the train accuracy and the test accuracy of
\* that epoch; nothing is printed before the first epoch has finished and
\* nothing after the tenth.
C7_LogLines ==
    /\ [](nb = "text" =>
            /\ Numbered(log)
            /\ Len(log) = IF tpc \in {"epoch", "done"} THEN ITER + 1 ELSE ITER
            /\ Len(log) <= 10
            /\ tpc = "done" => Len(log) = 10
            /\ tpc = "print" =>
                  /\ pos = Len(test_data)
                  /\ Len(seen) = Len(train_data)
                  /\ total_loss = Len(seen))
    /\ [][(nb = "text" /\ (log' # log \/ last_line' # last_line)) =>
              /\ tpc = "print"
              /\ log' = Append(log, Len(log) + 1)
              /\ last_line' =
                    [n |-> ITER + 1,
                     loss |-> <<total_loss, Len(train_data)>>,
                     train_acc |-> <<train_correct, Len(train_data)>>,
                     test_acc |-> <<test_correct, Len(test_data)>>]]_vars

\* all ten lines have been printed
C7_Witness ==
    /\ nb = "text"
    /\ tpc = "done"
    /\ log = <<1, 2, 3, 4, 5, 6, 7, 8, 9, 10>>
    /\ last_line.n = 10

\* C8: in every epoch the test evaluation starts only after all training
\* examples of the epoch have been processed, it runs in eval mode, and it
\* calls neither zero_grad nor backward nor the optimizer: the parameters
\* (and their gradients) are at its end what they were at its start.
C8_EvalFrame ==
    /\ [](tpc \in EvalPhase =>
            /\ Len(seen) = Len(train_data)
            /\ params = (ITER + 1) * Len(train_data)
            /\ tpc # "model_eval" => mode = "eval"
            /\ tpc \in TestLoop \ {"for_test"} =>
                  Range(calls) \subseteq {"forward", "argmax"})
    /\ [][(tpc \in EvalPhase) =>
              (/\ params' = params
               /\ pgrad' = pgrad
               /\ applied' = applied)]_vars

\* the evaluation of the last epoch has gone through two test examples
C8_Witness ==
    /\ tpc = "print"
    /\ ITER = 9
    /\ mode = "eval"
    /\ Len(test_data) = 2
    /\ pos = 2
    /\ test_correct = 1


\* C4: the forward passes of BoW, CBoW and DeepCBoW sum the embeddings of
\* the tokens before any further layer: for fixed parameters every order of
\* the tokens of a sentence gives the same scores, of shape (1, ntags).
C4_OrderInvariant ==
    fpc = "done" =>
        /\ out2 = out
        /\ Len(out) = 1
        /\ Len(out[1]) = FwdTags

\* a sentence of two different tokens, taken in the other order, whose
\* scores are not all zero
C4_Witness ==
    /\ fpc = "done"
    /\ arch = "DeepCBoW"
    /\ Len(sent) >= 2
    /\ sent2 # sent
    /\ \E j \in 1..FwdTags : out[1][j] # 0


\* the features the counterfactual example changes
ChangedFeatures == { i \in DOMAIN feature_names : elite[i] # x_user[i] }

\* the features the report lists
ListedFeatures ==
    { i \in DOMAIN feature_names :
        \E k \in 2..Len(stdout) :
            stdout[k] = Line("change", feature_names[i], x_user[i], elite[i]) }

\* C9: the report has exactly two outcomes and raises no error: when the
\* black-box model predicts desired_class for cogs.elite it prints the
\* success line followed by one line for exactly the features i with
\* elite[i] - x[i] != 0; otherwise it prints the failure message only.
C9_ReportOutcomes ==
    /\ cpc = "report" => ENABLED Report
    /\ cpc = "reported" =>
          IF BbmPredict(elite) = desired_class
          THEN /\ stdout[1].msg = "success"
               /\ ListedFeatures = ChangedFeatures
               /\ Len(stdout) = 1 + Cardinality(ChangedFeatures)
               /\ \A k \in 2..Len(stdout) : stdout[k].msg = "change"
          ELSE stdout = <<Line("failed", "", 0, 0)>>

\* a success that lowers one feature and leaves another as it is
C9_Witness ==
    /\ cpc = "reported"
    /\ stdout[1].msg = "success"
    /\ \E i \in DOMAIN feature_names : elite[i] < x_user[i]
    /\ \E i \in DOMAIN feature_names : elite[i] = x_user[i]

\* a search that has not reached the desired class
C9_WitnessFailed ==
    /\ cpc = "reported"
    /\ stdout[1].msg = "failed"
    /\ ChangedFeatures # {}

\* the rows of the test set with the unfavourable prediction
UndesiredRows == { i \in DOMAIN p : p[i] # desired_class }

\* the largest element of a set of numbers
Max(S) == CHOOSE m \in S : \A n \in S : n <= m

\* C10: once the cell that picks the user has run, x is the last point of
\* the test set for which the prediction is not desired_class, whenever
\* the test set holds at least one such point.
C10_LastUndesired ==
    (cpc \notin {"off", "predict", "pick_idx", "pick_x"} /\ UndesiredRows # {})
        => x_user = X_test[Max(UndesiredRows)]

\* C10, as far as it holds: with at least two such points x is the last of
\* them; with exactly one, as with none, the cell stops with an IndexError
\* and x is not assigned.
C10_LastOfSeveral ==
    cpc \notin {"off", "predict", "pick_idx", "pick_x"} =>
        IF Cardinality(UndesiredRows) >= 2
        THEN /\ cpc # "error"
             /\ idx = Max(UndesiredRows) - 1
             /\ x_user = X_test[Max(UndesiredRows)]
        ELSE /\ cpc = "error"
             /\ x_user = <<>>


\* the values feature number k (counted from 1) takes in the training set
TrainValues(k) == { X_train[r][k] : r \in DOMAIN X_train }

\* the sequence is strictly increasing
Increasing(l) == \A i, j \in DOMAIN l : i < j => l[i] < l[j]

C15_Constraints ==
    spc = "done" =>
        LET names == FeatureNamesOf(df_columns)
        IN  /\ DOMAIN pcs = DOMAIN names
            /\ \A k \in DOMAIN names :
                  /\ pcs[k] = ">=" <=> names[k] = "age"
                  /\ pcs[k] = "=" <=> names[k] = "foreign_worker"
                  /\ pcs[k] = "None" <=> names[k] \notin {"age", "foreign_worker"}

\* the columns in an order in which age comes last
C15_Witness ==
    /\ spc = "done"
    /\ df_columns = <<"foreign_worker", "credit_risk", "purpose", "age">>
    /\ pcs = <<"=", "None", ">=">>


\* the points the fitted classifier gives the desired class
DesiredPoints == { point \in Points : point[bbm.feat] >= bbm.thr }

LossLines == SelectSeq(printed, LAMBDA l : l.line = "loss")

\* the lines printed after the training loop
FinalLines ==
    <<"Predicted data based on trained weights: ", "Input (scaled): ",
      "Output: ", "Finished training!">>

\* C13: the network is trained for exactly 1000 rounds; the loss is printed
\* exactly for the rounds 0, 100, ..., 900, each value computed from the
\* weights of before that round's update (the first from the untrained
\* weights); saveWeights, predict and the line 'Finished training!' happen
\* once each, in this order, only after the 1000th update.
C13_Rounds ==
    /\ [](npc # "off" =>
            /\ \A k \in DOMAIN LossLines :
                  /\ LossLines[k].i = 100 * (k - 1)
                  /\ LossLines[k].W1 = LossLines[k].i
                  /\ LossLines[k].W2 = LossLines[k].i
            /\ Len(LossLines) <= 10
            /\ npc \in {"for", "if"} => W1 = round + (IF npc = "for" THEN 1 ELSE 0)
            /\ W1 <= 1000 /\ W2 <= 1000
            /\ npc \in {"save", "predict", "finished", "done"} =>
                  /\ W1 = 1000 /\ W2 = 1000
                  /\ Len(LossLines) = 10
            /\ saved # None => saved = [W1 |-> 1000, W2 |-> 1000]
            /\ npc \in {"for", "if", "train", "o_error", "o_delta", "z2_error",
                        "z2_delta", "W1", "W2", "save"} =>
                  /\ saved = None
                  /\ printed = LossLines
            /\ npc = "predict" => saved # None /\ printed = LossLines
            /\ npc = "finished" =>
                  Len(printed) = Len(LossLines) + 3
            /\ npc = "done" =>
                  /\ saved # None
                  /\ Len(printed) = 14
                  /\ \A k \in 1..4 : printed[10 + k].line = FinalLines[k])
    /\ [][/\ saved # None => saved' = saved
          /\ Len(printed') >= Len(printed)
          /\ SubSeq(printed', 1, Len(printed)) = printed]_vars

\* the cell has run to its end
C13_Witness ==
    /\ npc = "done"
    /\ W1 = 1000
    /\ Len(printed) = 14
    /\ printed[10].i = 900

\* C17: train makes one forward call and then one backward call; backward
\* updates W1 and W2 once each; z2_error is computed from the W2 of before
\* this call's update, and both updates use the z2 and the o of this call's
\* own forward call, not those of an earlier one.
C17_TrainStep ==
    npc = "for" /\ round >= 0 =>
        LET own == HiddenActivation(forwards, "X", W1 - 1)
            o_own == OutputActivation(own, W2 - 1)
        IN  /\ W1 = round + 1
            /\ W2 = round + 1
            /\ forwards = round + 1 + Len(LossLines)
            /\ z2 = own
            /\ W2_from.z2 = own
            /\ W2_from.o_delta.o = o_own
            /\ W2_from.o_delta.o_error.o = o_own
            /\ W1_from.z2_delta.z2 = own
            /\ W1_from.z2_delta.z2_error.W2 = W2 - 1
            /\ W1_from.z2_delta.z2_error.o_delta = W2_from.o_delta

\* round 100 has printed its loss, which made a forward call of its own,
\* and has then been trained
C17_Witness ==
    /\ npc = "for"
    /\ round = 100
    /\ forwards = 103
    /\ W2_from.z2.call = 103


\* C16: in the BoW model the bias is not among model.parameters(): no
\* optimizer step changes it, after any number of training steps it holds
\* its initial value, and the embedding weights are what is trained.
C16_BiasUntrained ==
    /\ [](nb = "text" =>
            /\ \A k \in DOMAIN ModelParameters : ModelParameters[k] # "bias"
            /\ updates["bias"] = 0
            /\ updates["embedding.weight"] = params)
    /\ [][nb = "text" => updates'["bias"] = updates["bias"]]_vars

\* the bias after all optimizer steps of a run on two training examples
C16_Witness ==
    /\ nb = "text"
    /\ tpc = "done"
    /\ updates["embedding.weight"] = 20
    /\ updates["bias"] = 0


\* the statements of the body of the training loop
TrainBody == TrainLoop \ {"for_train"}

\* the statements of the body of the test loop
TestBody == TestLoop \ {"for_test"}

\* the training examples the current epoch has taken from train_data; the
\* epoch begins when the outer loop takes its next value
ProcessedInEpoch ==
    IF tpc \in {"model_train", "shuffle", "reset_train"} THEN 0 ELSE Len(seen)

\* the test examples the current epoch has taken from test_data
EvaluatedInEpoch ==
    IF tpc \in TestLoop \cup {"print", "epoch", "done"} THEN pos ELSE 0

\* C19, as stated: at every point of a text-classifier run train_correct is
\* at most the number of training examples processed so far in the current
\* epoch and test_correct at most the number of test examples evaluated so
\* far in it.
C19_CountersEveryPoint ==
    nb = "text" =>
        /\ 0 <= train_correct /\ train_correct <= ProcessedInEpoch
        /\ 0 <= test_correct /\ test_correct <= EvaluatedInEpoch

\* C19, amended: from its reset in an epoch on, train_correct (and
\* total_loss, counted in loss terms) is at most the number of training
\* examples the epoch has processed, and from its reset on test_correct is
\* at most the number of test examples the epoch has evaluated; from the
\* start of the next epoch to these resets the counters hold the final
\* values of the epoch before, which are at most len(train_data) and
\* len(test_data); each reset sets its counters to zero, and every printed
\* line carries counters between 0 and the length of its data set.
C19_Counters ==
    /\ [](nb = "text" =>
            /\ 0 <= train_correct /\ train_correct <= Len(train_data)
            /\ 0 <= test_correct /\ test_correct <= Len(test_data)
            /\ 0 <= total_loss /\ total_loss <= Len(train_data)
            /\ tpc \in TrainLoop \cup EvalPhase =>
                  /\ train_correct <= ProcessedInEpoch
                  /\ total_loss <= ProcessedInEpoch
            /\ tpc \in TrainBody => train_correct <= Len(seen) - 1
            /\ tpc \in TestLoop \cup {"print"} => test_correct <= pos
            /\ tpc \in TestBody => test_correct <= pos - 1
            /\ tpc = "print" =>
                  /\ Len(train_data) > 0 /\ Len(test_data) > 0
                  /\ ProcessedInEpoch = Len(train_data)
                  /\ EvaluatedInEpoch = Len(test_data))
    /\ [][(nb = "text" /\ tpc = "reset_train") =>
              (total_loss' = 0 /\ train_correct' = 0)]_vars
    /\ [][(nb = "text" /\ tpc = "reset_test") => test_correct' = 0]_vars
    /\ [][(nb = "text" /\ last_line' # last_line) =>
              /\ last_line'.train_acc = <<train_correct, Len(train_data)>>
              /\ last_line'.test_acc = <<test_correct, Len(test_data)>>]_vars

\* the second epoch has begun and train_correct still holds the count of
\* the first
C19_Witness ==
    /\ nb = "text"
    /\ ITER = 1
    /\ tpc = "shuffle"
    /\ train_correct = 2
    /\ test_correct = 1


\* C20: the training loops of a text classifier change neither
\* word_to_index, tag_to_index, number_of_words, number_of_tags nor
\* test_data; train_data is changed by random.shuffle only, and at every
\* point, so after every epoch, it holds the pairs that create_tensor made
\* before the training, each as often.
C20_DataFrame ==
    /\ [](nb = "text" =>
            /\ SameBag(train_data, CreateTensor(train_raw))
            /\ test_data = CreateTensor(test_raw)
            /\ number_of_words = DictLen(word_to_index)
            /\ number_of_tags = DictLen(tag_to_index))
    /\ [][nb = "text" =>
            UNCHANGED <<word_to_index, tag_to_index, number_of_words,
                        number_of_tags, test_data>>]_vars
    /\ [][(nb = "text" /\ tpc # "shuffle") => train_data' = train_data]_vars

\* the last epoch is over and train_data, of two different pairs, is in
\* another order than before the training
C20_Witness ==
    /\ nb = "text"
    /\ tpc = "done"
    /\ Len(train_data) = 2
    /\ train_data[1] # train_data[2]
    /\ train_data # CreateTensor(train_raw)


RECURSIVE Join(_, _)
\* sep.join(fields)
Join(fields, sep) ==
    IF Len(fields) = 1 THEN fields[1]
    ELSE fields[1] \o sep \o Join(Tail(fields), sep)

\* str is ln in lower case without the white space at its two ends
IsStripped(str, ln) ==
    /\ str = <<>> \/ (str[1] \notin Whitespace /\ str[Len(str)] \notin Whitespace)
    /\ \E a \in 1..(Len(ln) + 1) :
          /\ a + Len(str) - 1 <= Len(ln)
          /\ \A k \in DOMAIN str : str[k] = LowerSymbol(ln[a + k - 1])
          /\ \A k \in DOMAIN ln :
                (k < a \/ k > a + Len(str) - 1) => ln[k] \in Whitespace

\* rec is the record of the line ln: its fields, joined by the separator,
\* are the stripped lower-case line, and no field holds the separator
IsRecordOf(rec, ln) ==
    /\ Len(rec) >= 1
    /\ IsStripped(Join(rec, Sep), ln)
    /\ \A k \in DOMAIN rec : ~Contains(rec[k], Sep)

\* data holds one record per line of file, in the order of the lines
IsReadOf(data, file) ==
    /\ Len(data) = Len(file)
    /\ \A k \in DOMAIN file :
          /\ IsRecordOf(data[k], file[k])
          /\ file[k] = <<"\n">> => data[k] = << <<>> >>

\* the first record of data with one field only; 0 if there is none
FirstShort(data) ==
    IF \A k \in DOMAIN data : HasText(data[k]) THEN 0
    ELSE CHOOSE k \in DOMAIN data :
            /\ ~HasText(data[k])
            /\ \A j \in 1..(k - 1) : HasText(data[j])

\* the dictionaries before create_dict(train_data)
EmptyDicts == [w |-> (UNK :> 0), t |-> <<>>]

\* the dictionaries of the model
Dicts == [w |-> word_to_index, t |-> tag_to_index]

\* C18: read_data returns one record per line of the file, in file order,
\* lowercased, stripped and split on ' ||| '; a line without the separator
\* (an empty line) becomes a record of one field; create_dict stops with
\* an index error on the first such record, never passing it, and leaves
\* the dictionaries with the entries of the records before it.
C18_ReadData ==
    /\ [](rpc # "off" =>
            /\ IsReadOf(records,
                        SubSeq(IF rpc = "read_train" THEN train_txt
                               ELSE IF rpc = "read_test" THEN test_txt
                               ELSE <<>>, 1, ri - 1))
            /\ rpc \in {"read_test", "read"} => IsReadOf(train_raw, train_txt)
            /\ rpc = "read" => IsReadOf(test_raw, test_txt)
            /\ dpc = "dict_train" /\ FirstShort(train_raw) # 0 =>
                  di <= FirstShort(train_raw)
            /\ dpc \in {"dict_test", "tensor_train"} =>
                  FirstShort(train_raw) = 0
            /\ dpc = "dict_test" /\ FirstShort(test_raw) # 0 =>
                  di <= FirstShort(test_raw)
            /\ dpc = "tensor_train" => FirstShort(test_raw) = 0
            /\ dpc = "error" =>
                  IF FirstShort(train_raw) # 0
                  THEN /\ di = FirstShort(train_raw)
                       /\ Dicts = CreateDict(EmptyDicts,
                                     SubSeq(train_raw, 1, di - 1), FALSE, 1)
                  ELSE /\ FirstShort(test_raw) # 0
                       /\ di = FirstShort(test_raw)
                       /\ Dicts = CreateDict(
                                     CreateDict(EmptyDicts, train_raw, FALSE, 1),
                                     SubSeq(test_raw, 1, di - 1), TRUE, 1))
    /\ [][dpc # "error"]_vars

\* the second line of the training file is "0 ||| " and has become the
\* one-field record "0 |||"; create_dict has stopped on it with the words
\* of the first record in the dictionary
C18_Witness ==
    /\ rpc = "read"
    /\ dpc = "error"
    /\ di = 2
    /\ train_raw[2] = << <<"0", " ", "|", "|", "|">> >>
    /\ DictLen(word_to_index) > 1
    /\ DictLen(tag_to_index) = 1

=============================================================================
